---- MODULE Spec2Model ----
(***************************************************************************)
(* A model of the weather dashboard's data-access layer                    *)
(* (src/src/lib/weatherService.ts: cache, fetchers, fallback, city lookup) *)
(* and of the page that drives it (src/src/app/page.tsx: the initial       *)
(* locate-then-fetch load, the city search, the error timer).              *)
(*                                                                         *)
(* Time is Date.now() in milliseconds.  Coordinates are held in units of   *)
(* 1e-4 degree so that the default pair (37.7749, -122.4194) is integral.  *)
(*                                                                         *)
(* Eight specifications share the state:                                   *)
(*   Spec         the page and the service under it (the program)          *)
(*   SpecLoad     the page's initial load alone, with every response free  *)
(*   SpecService  the WeatherService singleton driven through its public   *)
(*                methods by an arbitrary caller                           *)
(*   SpecKey      getCacheKey / fetchWithCache applied to two parameter    *)
(*                objects holding the same pairs in some insertion order   *)
(*   SpecRoute    one request to the proxy's GET handler                   *)
(*                (src/src/app/api/weather/route.ts)                       *)
(*   SpecNormalize  one call of a fetcher, from the upstream body to the   *)
(*                view model it returns                                    *)
(*   SpecRefetch  the two fetchers of the onecall key called again after   *)
(*                a request has failed                                     *)
(*   SpecDebounce, SpecDebounceFair  one function returned by              *)
(*                PerformanceMonitor.debounce                              *)
(*                (src/src/components/LoadingComponents.tsx)               *)
(***************************************************************************)
EXTENDS Integers, Sequences, FiniteSets, TLC

VARIABLES
    now,        \* Date.now()
    ticks,      \* number of clock advances so far (bounds the run)
    cache,      \* WeatherService.cache: Map<string, {data, timestamp}>
    calls,      \* SpecService/SpecKey: number of calls the caller has made
    pending,    \* SpecService: fetcher calls awaiting their upstream response
    lastRead,   \* SpecService/SpecKey: what the latest cache read saw and did
    lastRet,    \* SpecService: what the latest fetcher call returned
    requests,   \* SpecService/SpecKey: upstream requests issued so far
    fetched,    \* SpecService/SpecKey: keys fetched since the last clearCache
    ep, p1, p2, \* SpecKey: the endpoint and the two parameter objects
    rawPending, \* SpecKey: fetchWithCache calls awaiting their response
    weather,        \* page state: useState<WeatherData | null>
    hourlyForecast, \* page state
    dailyForecast,  \* page state
    alerts,         \* page state
    loading,        \* page state
    searchQuery,    \* page state: the text in the search box
    userLocation,   \* page state
    searchError,    \* page state, with the time the message was set
    geoAvailable,   \* whether navigator.geolocation exists
    ops,            \* the load (0) and the searches (1..MaxSearches)
    last,           \* which operation's await resumed last, per display part
    clearedAfter,   \* how long the message a timer last removed had been shown
    faults,         \* weather responses so far that failed or were malformed
    route,          \* SpecRoute: one request to the proxy's GET handler
    norm,           \* SpecNormalize: one upstream body and the view built of it
    deb             \* SpecDebounce: one function returned by debounce

svcVars == <<now, ticks, cache>>
clientVars == <<calls, pending, lastRead, lastRet, requests, fetched>>
keyVars == <<ep, p1, p2, rawPending>>
sideVars == <<route, norm, deb>>
pageVars ==
    <<weather, hourlyForecast, dailyForecast, alerts, loading, searchQuery,
      userLocation, searchError, geoAvailable, ops, last, clearedAfter,
      faults>>
vars ==
    <<now, ticks, cache, calls, pending, lastRead, lastRet, requests, fetched,
      ep, p1, p2, rawPending, weather, hourlyForecast, dailyForecast, alerts, loading,
      searchQuery, userLocation, searchError, geoAvailable, ops, last,
      clearedAfter, faults, route, norm, deb>>

----------------------------------------------------------------------------
(* Bounds and program constants *)

MaxTicks == 2

MaxCalls == 2

CACHE_DURATION == 600000

DEFAULT_LAT == 377749

DEFAULT_LON == -1224194

None == "none"

DefaultCoords == [lat |-> DEFAULT_LAT, lon |-> DEFAULT_LON]

\* Where the geocoder puts "Paris", and where the device is.
CityCoords == [lat |-> 488566, lon |-> 23522]

Coords == {DefaultCoords, CityCoords}

\* The places the caller of SpecService and SpecKey asks for.
ServiceCoords == {CityCoords}

NoCoords == [lat |-> 0, lon |-> 0]

Fetchers == {"current", "hourly", "daily", "alerts"}

Types == {"current", "forecast", "onecall"}

Endpoints == {"weather", "geo"}

\* What the upstream (the same-origin proxy) can answer to one request.
Outcomes == {"ok", "malformed", "http_error", "network_error"}

\* The advances of the clock the service specifications take.
ServiceSteps == {1, CACHE_DURATION}

----------------------------------------------------------------------------
(* WeatherService: cache key, expiry, fetchWithCache *)

\* The `type` each fetcher passes to fetchWithCache.
TypeOf(f) ==
    CASE f = "current" -> "current"
      [] f = "hourly"  -> "forecast"
      [] f = "daily"   -> "onecall"
      [] f = "alerts"  -> "onecall"

\* The object literal { lat, lon, type }: its own keys in insertion order.
Params(c, t) == << <<"lat", c.lat>>, <<"lon", c.lon>>, <<"type", t>> >>

\* The same key-value pairs in every insertion order.
Orderings(p) ==
    { [i \in 1..Len(p) |-> p[f[i]]] : f \in Permutations(1..Len(p)) }

SameMapping(p, q) ==
    /\ Len(p) = Len(q)
    /\ {p[i] : i \in 1..Len(p)} = {q[i] : i \in 1..Len(q)}

RECURSIVE Members(_, _)
Members(p, i) ==
    IF i > Len(p) THEN <<>>
    ELSE (IF i > 1 THEN <<",">> ELSE <<>>)
         \o <<p[i][1], ":", p[i][2]>> \o Members(p, i + 1)

\* JSON.stringify of a flat object: {"k1":v1,"k2":v2,...} with the keys in
\* the object's own (insertion) order, as a sequence of tokens.
JSONStringify(p) == <<"{">> \o Members(p, 1) \o <<"}">>

getCacheKey(endpoint, params) == <<endpoint, "-">> \o JSONStringify(params)

isDataExpiredInclusive(timestamp, t) == t - timestamp >= CACHE_DURATION

isDataExpired(timestamp, t) == t - timestamp > CACHE_DURATION

CacheHitNoExpiry(ch, t, key) == key \in DOMAIN ch

\* fetchWithCache up to its first await: the cache read and the decision.
CacheHit(ch, t, key) ==
    /\ key \in DOMAIN ch
    /\ ~isDataExpired(ch[key].timestamp, t)

\* cache.set(cacheKey, { data, timestamp: Date.now() })
CacheSet(ch, key, data, t) ==
    [k \in DOMAIN ch \cup {key} |->
        IF k = key THEN [data |-> data, timestamp |-> t] ELSE ch[k]]

\* The value params holds under key k.
ParamValue(params, k) ==
    params[CHOOSE i \in 1..Len(params) : params[i][1] = k][2]

\* The body the proxy answers with for the request new URLSearchParams(params)
\* makes, received at time t.
Payload(params, outcome, t) ==
    [coord |-> [lat |-> ParamValue(params, "lat"),
                lon |-> ParamValue(params, "lon")],
     type |-> ParamValue(params, "type"), at |-> t,
     shape |-> IF outcome = "ok" THEN "good" ELSE "malformed"]

\* Whether response.ok held and response.json() gave a body.
Delivered(outcome) == outcome \in {"ok", "malformed"}

FetchSettleStoringFailure(ch, t, endpoint, params, outcome) ==
    [cache |-> CacheSet(ch, getCacheKey(endpoint, params),
                        Payload(params, outcome, t), t),
     ok |-> Delivered(outcome),
     data |-> IF Delivered(outcome) THEN Payload(params, outcome, t)
              ELSE None]

\* fetchWithCache after its await: the cache after the response, and what
\* the call gives its caller (the body, or the rethrown error).
FetchSettle(ch, t, endpoint, params, outcome) ==
    IF Delivered(outcome)
    THEN [cache |-> CacheSet(ch, getCacheKey(endpoint, params),
                             Payload(params, outcome, t), t),
          ok |-> TRUE, data |-> Payload(params, outcome, t)]
    ELSE [cache |-> ch, ok |-> FALSE, data |-> None]

\* getCacheStatus().entries
CacheEntries(ch) == Cardinality(DOMAIN ch)

\* The keys fetched so far (response.ok held and response.json() gave a
\* body), after one more response.
Fetched(keys, key, outcome) ==
    IF Delivered(outcome) THEN keys \cup {key} ELSE keys

----------------------------------------------------------------------------
(* The four fetchers: normalization inside try, fallback inside catch *)

\* The name the weather provider gives the place at c (data.name, country).
ProviderLabel(c) ==
    IF c = DefaultCoords THEN "San Francisco, US" ELSE "Palais-Royal, FR"

\* The view model a fetcher builds from a well-formed body.
Normalize(f, data) ==
    [kind |-> "data", f |-> f, coord |-> data.coord, at |-> data.at,
     location |-> IF f = "current" THEN ProviderLabel(data.coord) ELSE None]

\* Whether building the view model throws (a property read on undefined).
NormalizeThrows(f, data) == data.shape # "good"

\* The mock data of each fetcher's catch block.
Fallback(f, c) ==
    [kind |-> "fallback", f |-> f,
     coord |-> IF f = "current" THEN c ELSE NoCoords, at |-> -1,
     location |-> IF f = "current" THEN "Unknown Location" ELSE None]

\* No view model yet (the page's null and empty lists).
NoView ==
    [kind |-> "none", f |-> None, coord |-> NoCoords, at |-> -1,
     location |-> None]

FetcherReturnRethrow(f, c, ok, data) ==
    IF ok /\ ~NormalizeThrows(f, data)
    THEN [status |-> "resolved", value |-> Normalize(f, data)]
    ELSE [status |-> "rejected", value |-> NoView]

\* What a fetcher's promise settles with, given how fetchWithCache ended:
\* `ok` with a body, or the error it rethrew.
FetcherReturn(f, c, ok, data) ==
    IF ok /\ ~NormalizeThrows(f, data)
    THEN [status |-> "resolved", value |-> Normalize(f, data)]
    ELSE [status |-> "resolved", value |-> Fallback(f, c)]

\* The arguments each fetcher gives fetchWithCache.
FetcherParams(f, c) == Params(c, TypeOf(f))

FetcherKey(f, c) == getCacheKey("weather", FetcherParams(f, c))

\* The keys fetchWithCache would serve from the cache at time t.
ValidKeys(ch, t) == {k \in DOMAIN ch : ~isDataExpired(ch[k].timestamp, t)}

\* The record of one cache read by fetchWithCache.
ReadRecord(ch, t, key) ==
    [key |-> key, valid |-> ValidKeys(ch, t), had |-> key \in DOMAIN ch,
     age |-> IF key \in DOMAIN ch THEN t - ch[key].timestamp ELSE 0,
     hit |-> CacheHit(ch, t, key), issued |-> FALSE]

NoRead ==
    [key |-> <<>>, valid |-> {}, had |-> FALSE, age |-> 0,
     hit |-> FALSE, issued |-> FALSE]

\* A promise that has not settled.
Unsettled == [status |-> "pending", value |-> NoView]

\* `how` is what the call was answered from: the cache, or a response and its
\* outcome.
NoRet ==
    [f |-> None, coord |-> NoCoords, readAt |-> 0, how |-> None,
     ret |-> Unsettled]

----------------------------------------------------------------------------
(* The page: state, the load and the searches as resumable operations *)

MaxSearches == 2

MaxFaults == 1

MaxActive == 2

SEARCH_ERROR_MS == 3000

LOAD == 0

Searches == 1..MaxSearches

OpIds == {LOAD} \cup Searches

\* What the user can have in the search box.
Queries == {"", "Paris", "San Francisco"}

\* searchQuery.trim() is empty.
IsBlank(q) == q \in {"", " "}

\* geocodingData[0] for a name the geocoder knows.
Gazetteer(q) ==
    IF q = "Paris"
    THEN [coord |-> CityCoords, name |-> "Paris", country |-> "FR"]
    ELSE [coord |-> DefaultCoords, name |-> "San Francisco", country |-> "US"]

\* `${name}, ${country}`
CityLabel(name, country) ==
    CASE name = "Paris" /\ country = "FR" -> "Paris, FR"
      [] name = "San Francisco" /\ country = "US" -> "San Francisco, US"

\* What the geocoding request can end with.
GeoOutcomes == {"found", "empty", "http_error", "network_error"}

\* position.coords of a successful device lookup.
DevicePosition == CityCoords

\* The advances of the clock the page specification takes.
PageSteps == {1, SEARCH_ERROR_MS - 1}

NoLocation == [lat |-> 0, lon |-> 0, city |-> None]

NoError == [shown |-> FALSE, query |-> "", cause |-> None, setAt |-> 0]

\* A call that has not been made.
NotStarted == [status |-> "idle", value |-> NoView]

NoOp ==
    [pc |-> "idle", query |-> "", geo |-> None, geoCalls |-> 0,
     coord |-> NoCoords, label |-> None,
     res |-> [f \in Fetchers |-> NotStarted],
     timer |-> -1, solo |-> FALSE]

\* The page state and the cache as one value, so that a handler's steps
\* compose up to the await it stops at.
World ==
    [cache |-> cache, ops |-> ops, weather |-> weather,
     hourlyForecast |-> hourlyForecast, dailyForecast |-> dailyForecast,
     alerts |-> alerts, loading |-> loading, searchQuery |-> searchQuery,
     userLocation |-> userLocation, searchError |-> searchError,
     last |-> last]

Apply(w) ==
    /\ cache' = w.cache
    /\ ops' = w.ops
    /\ weather' = w.weather
    /\ hourlyForecast' = w.hourlyForecast
    /\ dailyForecast' = w.dailyForecast
    /\ alerts' = w.alerts
    /\ loading' = w.loading
    /\ searchQuery' = w.searchQuery
    /\ userLocation' = w.userLocation
    /\ searchError' = w.searchError
    /\ last' = w.last

Active(op) == op.pc \in {"init", "locating", "fetching", "geocoding",
                         "weather", "forecast"}

Settled(r) == r.status \in {"resolved", "rejected"}

\* A fetcher called at time t: settled at once on a cache hit, else waiting
\* for the response to the request it issued.
BeginFetcher(ch, t, f, c) ==
    IF CacheHit(ch, t, FetcherKey(f, c))
    THEN FetcherReturn(f, c, TRUE, ch[FetcherKey(f, c)].data)
    ELSE Unsettled

\* The calls of one Promise.all([...]) (or the single call of
\* getWeatherByCity), all made before anything is awaited.
StartFetches(w, t, o, c, fs) ==
    [w EXCEPT !.ops[o].res =
        [f \in Fetchers |->
            IF f \in fs THEN BeginFetcher(w.cache, t, f, c)
            ELSE w.ops[o].res[f]]]

AnySettled(w, o, fs) == \E f \in fs : Settled(w.ops[o].res[f])

\* Promise.all resolves once every member has.
AllSettled(w, o, fs) == \A f \in fs : Settled(w.ops[o].res[f])

AnyRejected(w, o, fs) == \E f \in fs : w.ops[o].res[f].status = "rejected"

----------------------------------------------------------------------------
(* fetchWeatherData() as called by the mount effect *)

\* The userLocation the closure of the first render holds: fetchWeatherData
\* is only ever called from the mount effect.
ClosureUserLocation == NoLocation

LocateFallbackZero == NoCoords

\* The coordinates of the catch branch of the device lookup.
LocateFallback == DefaultCoords

\* The catch block of fetchWeatherData, then its finally.
LoadCatch(w) ==
    [w EXCEPT !.weather = Fallback("current", NoCoords),
              !.loading = FALSE,
              !.ops[LOAD].pc = "caught",
              !.last.weather = LOAD]

\* The state writes after the joint await, then finally.
LoadFinish(w) ==
    LET op == w.ops[LOAD] IN
    [w EXCEPT !.weather = op.res["current"].value,
              !.hourlyForecast = op.res["hourly"].value,
              !.dailyForecast = op.res["daily"].value,
              !.alerts = op.res["alerts"].value,
              !.userLocation =
                  IF ClosureUserLocation = NoLocation
                  THEN [lat |-> op.coord.lat, lon |-> op.coord.lon,
                        city |-> op.res["current"].value.location]
                  ELSE @,
              !.loading = FALSE,
              !.ops[LOAD].pc = "done",
              !.last = [weather |-> LOAD, forecast |-> LOAD,
                        location |-> IF ClosureUserLocation = NoLocation
                                     THEN LOAD ELSE @.location]]

\* await Promise.all([...]) of the load.
LoadAwaitAll(w) ==
    IF AnyRejected(w, LOAD, Fetchers) THEN LoadCatch(w)
    ELSE IF AllSettled(w, LOAD, Fetchers) THEN LoadFinish(w)
    ELSE [w EXCEPT !.ops[LOAD].pc = "fetching"]

\* From the outcome of the device lookup to the joint await.
LoadLocated(w, t, geo, c, label) ==
    LoadAwaitAll(StartFetches(
        [w EXCEPT !.userLocation = [lat |-> c.lat, lon |-> c.lon,
                                    city |-> label],
                  !.ops[LOAD].geo = geo,
                  !.ops[LOAD].coord = c,
                  !.last.location = LOAD],
        t, LOAD, c, Fetchers))

\* fetchWeatherData() up to its first await: getCurrentPosition rejects at
\* once when navigator.geolocation is missing.
LoadStart(w, t, available) ==
    LET w1 == [w EXCEPT !.loading = TRUE,
                        !.ops[LOAD].pc = "locating",
                        !.ops[LOAD].geoCalls = @ + 1] IN
    IF available THEN w1
    ELSE LoadLocated(w1, t, "unavailable", LocateFallback, "San Francisco, CA")

----------------------------------------------------------------------------
(* handleSearch and getWeatherByCity *)

\* The catch block of handleSearch, then its finally.
SearchCatchClearing(w, t, s, cause) ==
    [w EXCEPT !.weather = NoView,
              !.searchError = [shown |-> TRUE, query |-> w.ops[s].query,
                               cause |-> cause, setAt |-> t],
              !.ops[s].timer = t + SEARCH_ERROR_MS,
              !.loading = FALSE,
              !.ops[s].pc = "failed"]

SearchCatch(w, t, s, cause) ==
    [w EXCEPT !.searchError = [shown |-> TRUE, query |-> w.ops[s].query,
                               cause |-> cause, setAt |-> t],
              !.ops[s].timer = t + SEARCH_ERROR_MS,
              !.loading = FALSE,
              !.ops[s].pc = "failed"]

\* The state writes after the second joint await, then finally.
SearchFinish(w, s) ==
    LET op == w.ops[s] IN
    [w EXCEPT !.hourlyForecast = op.res["hourly"].value,
              !.dailyForecast = op.res["daily"].value,
              !.alerts = op.res["alerts"].value,
              !.searchQuery = "",
              !.loading = FALSE,
              !.ops[s].pc = "done",
              !.last.forecast = s]

SearchForecasts == {"hourly", "daily", "alerts"}

\* await Promise.all([...]) of the search.
SearchAwaitAll(w, t, s) ==
    IF AnyRejected(w, s, SearchForecasts)
    THEN SearchCatch(w, t, s, "fetch_error")
    ELSE IF AllSettled(w, s, SearchForecasts) THEN SearchFinish(w, s)
    ELSE [w EXCEPT !.ops[s].pc = "forecast"]

RelabelSkipped(v, label) == v

RelabelDataOnly(v, label) ==
    IF v.kind = "data" THEN [v EXCEPT !.location = label] ELSE v

\* weather.location = `${name}, ${country}`
Relabel(v, label) == [v EXCEPT !.location = label]

\* From the result of getWeatherByCity to the second joint await.
SearchGotWeather(w, t, s) ==
    LET op == w.ops[s]
        shown == Relabel(op.res["current"].value, op.label)
    IN
    IF op.res["current"].status = "rejected"
    THEN SearchCatch(w, t, s, "fetch_error")
    ELSE SearchAwaitAll(StartFetches(
            [w EXCEPT !.weather = shown,
                      !.userLocation = [lat |-> op.coord.lat,
                                        lon |-> op.coord.lon,
                                        city |-> shown.location],
                      !.last.weather = s,
                      !.last.location = s],
            t, s, op.coord, SearchForecasts), t, s)

SearchGeocodedEager(w, t, s, outcome) ==
    LET place == Gazetteer(w.ops[s].query)
        w2 == StartFetches(
                [w EXCEPT !.ops[s].geo = outcome,
                          !.ops[s].coord = place.coord,
                          !.ops[s].label = CityLabel(place.name,
                                                     place.country)],
                t, s, place.coord, {"current"})
    IN
    CASE outcome = "found" ->
            IF Settled(w2.ops[s].res["current"])
            THEN SearchGotWeather(w2, t, s)
            ELSE [w2 EXCEPT !.ops[s].pc = "weather"]
      [] outcome = "empty" -> SearchCatch(w2, t, s, "not_found")
      [] OTHER -> SearchCatch(w2, t, s, outcome)

\* getWeatherByCity from the geocoder's answer on.
SearchGeocoded(w, t, s, outcome) ==
    LET place == Gazetteer(w.ops[s].query)
        w1 == [w EXCEPT !.ops[s].geo = outcome]
        w2 == StartFetches(
                [w1 EXCEPT !.ops[s].coord = place.coord,
                           !.ops[s].label = CityLabel(place.name,
                                                      place.country)],
                t, s, place.coord, {"current"})
    IN
    CASE outcome = "found" ->
            IF Settled(w2.ops[s].res["current"])
            THEN SearchGotWeather(w2, t, s)
            ELSE [w2 EXCEPT !.ops[s].pc = "weather"]
      [] outcome = "empty" -> SearchCatch(w1, t, s, "not_found")
      [] OTHER -> SearchCatch(w1, t, s, outcome)

\* An operation started while others are in flight: none of them runs alone.
MarkOverlap(os, s) ==
    LET others == {o \in OpIds \ {s} : Active(os[o])} IN
    [o \in OpIds |->
        IF o = s THEN [os[o] EXCEPT !.solo = (others = {})]
        ELSE IF o \in others THEN [os[o] EXCEPT !.solo = FALSE]
        ELSE os[o]]

SearchStartCancelling(w, s) ==
    [w EXCEPT !.loading = TRUE,
              !.searchError = NoError,
              !.ops = [o \in OpIds |->
                  IF o = s THEN [@[o] EXCEPT !.pc = "geocoding",
                                             !.query = w.searchQuery]
                  ELSE IF o \in Searches /\ Active(@[o])
                       THEN [@[o] EXCEPT !.pc = "failed"]
                       ELSE @[o]]]

\* handleSearch up to its first await.
SearchStart(w, s) ==
    [w EXCEPT !.loading = TRUE,
              !.searchError = NoError,
              !.ops[s].pc = "geocoding",
              !.ops[s].query = w.searchQuery]

\* No request at the proxy, nothing being normalized.
NoRoute == [pc |-> "idle"]

NoNorm == [pc |-> "idle"]

\* The values route and norm keep under the specifications that do not
\* use them.
NoDeb == [pc |-> "idle"]

SideParked ==
    /\ route = NoRoute
    /\ norm = NoNorm
    /\ deb = NoDeb

\* The values the page's variables keep under SpecService and SpecKey.
PageParked ==
    /\ weather = NoView
    /\ hourlyForecast = NoView
    /\ dailyForecast = NoView
    /\ alerts = NoView
    /\ loading = TRUE
    /\ searchQuery = ""
    /\ userLocation = NoLocation
    /\ searchError = NoError
    /\ geoAvailable = FALSE
    /\ ops = [o \in OpIds |-> NoOp]
    /\ last = [weather |-> -1, forecast |-> -1, location |-> -1]
    /\ clearedAfter = -1
    /\ faults = 0

----------------------------------------------------------------------------
(* SpecService: the singleton driven through its public methods *)

Tick(d) ==
    /\ ticks < MaxTicks
    /\ now' = now + d
    /\ ticks' = ticks + 1

CallDeduplicating(f, c) ==
    LET key == FetcherKey(f, c) IN
    /\ calls < MaxCalls
    /\ [f |-> f, coord |-> c] \notin pending
    /\ calls' = calls + 1
    /\ IF CacheHit(cache, now, key)
       THEN /\ lastRet' = [f |-> f, coord |-> c, readAt |-> now,
                           how |-> "cache",
                           ret |-> FetcherReturn(f, c, TRUE, cache[key].data)]
            /\ pending' = pending
       ELSE /\ pending' = pending \cup {[f |-> f, coord |-> c]}
            /\ lastRet' = lastRet
    /\ requests' =
          IF \/ CacheHit(cache, now, key)
             \/ \E call \in pending : FetcherKey(call.f, call.coord) = key
          THEN requests ELSE requests + 1
    /\ lastRead' = [ReadRecord(cache, now, key)
                      EXCEPT !.issued = requests' # requests]
    /\ UNCHANGED <<svcVars, fetched, keyVars, pageVars, sideVars>>

\* A caller invokes fetcher f for c: a hit settles at once, a miss issues
\* the request and waits.
Invoke(f, c) ==
    LET key == FetcherKey(f, c) IN
    /\ [f |-> f, coord |-> c] \notin pending
    /\ calls' = calls + 1
    /\ IF CacheHit(cache, now, key)
       THEN /\ lastRet' = [f |-> f, coord |-> c, readAt |-> now,
                           how |-> "cache",
                           ret |-> FetcherReturn(f, c, TRUE, cache[key].data)]
            /\ pending' = pending
       ELSE /\ pending' = pending \cup {[f |-> f, coord |-> c]}
            /\ lastRet' = lastRet
    /\ requests' = IF CacheHit(cache, now, key) THEN requests
                    ELSE requests + 1
    /\ lastRead' = [ReadRecord(cache, now, key)
                      EXCEPT !.issued = requests' # requests]
    /\ UNCHANGED <<svcVars, fetched, keyVars, pageVars, sideVars>>

Call(f, c) ==
    /\ calls < MaxCalls
    /\ Invoke(f, c)

RespondRetrying(call, outcome) ==
    LET s == FetchSettle(cache, now, "weather",
                         FetcherParams(call.f, call.coord), outcome) IN
    /\ call \in pending
    /\ cache' = s.cache
    /\ fetched' = Fetched(fetched, FetcherKey(call.f, call.coord), outcome)
    /\ IF s.ok
       THEN /\ pending' = pending \ {call}
            /\ requests' = requests
            /\ lastRet' = [f |-> call.f, coord |-> call.coord, readAt |-> now,
                           how |-> outcome,
                           ret |-> FetcherReturn(call.f, call.coord, s.ok,
                                                 s.data)]
       ELSE /\ pending' = pending
            /\ requests' = requests + 1
            /\ lastRet' = lastRet
    /\ UNCHANGED <<now, ticks, calls, lastRead, keyVars, pageVars,
                   sideVars>>

\* The response to a waiting call arrives.
Respond(call, outcome) ==
    LET s == FetchSettle(cache, now, "weather",
                         FetcherParams(call.f, call.coord), outcome) IN
    /\ call \in pending
    /\ pending' = pending \ {call}
    /\ cache' = s.cache
    /\ fetched' = Fetched(fetched, FetcherKey(call.f, call.coord), outcome)
    /\ lastRet' = [f |-> call.f, coord |-> call.coord, readAt |-> now,
                   how |-> outcome,
                   ret |-> FetcherReturn(call.f, call.coord, s.ok, s.data)]
    /\ UNCHANGED <<now, ticks, calls, lastRead, requests, keyVars, pageVars,
                   sideVars>>

clearCacheExpired ==
    /\ cache' = [k \in ValidKeys(cache, now) |-> cache[k]]
    /\ fetched' = {}
    /\ UNCHANGED <<now, ticks, calls, pending, lastRead, lastRet, requests,
                   keyVars, pageVars, sideVars>>

\* this.cache.clear()
clearCache ==
    /\ cache' = <<>>
    /\ fetched' = {}
    /\ UNCHANGED <<now, ticks, calls, pending, lastRead, lastRet, requests,
                   keyVars, pageVars, sideVars>>

ServiceTick ==
    /\ \E d \in ServiceSteps : Tick(d)
    /\ UNCHANGED <<cache, clientVars, keyVars, pageVars, sideVars>>

ServiceInit ==
    /\ now = 0
    /\ ticks = 0
    /\ cache = <<>>
    /\ calls = 0
    /\ pending = {}
    /\ lastRead = NoRead
    /\ lastRet = NoRet
    /\ requests = 0
    /\ fetched = {}
    /\ ep = "weather"
    /\ p1 = <<>>
    /\ p2 = <<>>
    /\ rawPending = {}
    /\ PageParked
    /\ SideParked

ServiceNext ==
    \/ \E f \in Fetchers, c \in ServiceCoords : Call(f, c)
    \/ \E call \in pending, o \in Outcomes : Respond(call, o)
    \/ clearCache
    \/ ServiceTick

SpecService == ServiceInit /\ [][ServiceNext]_vars

----------------------------------------------------------------------------
(* SpecRefetch: fetchers called again after their request has failed *)

MaxRefetch == 3

\* The fetchers called: the two that share the onecall key.
Refetchers == {"daily", "alerts"}

Recall(f, c) ==
    /\ calls < MaxRefetch
    /\ Invoke(f, c)

RefetchNext ==
    \/ \E f \in Refetchers, c \in ServiceCoords : Recall(f, c)
    \/ \E call \in pending, o \in Outcomes : Respond(call, o)
    \/ ServiceTick

SpecRefetch == ServiceInit /\ [][RefetchNext]_vars

----------------------------------------------------------------------------
(* SpecKey: fetchWithCache applied to two orderings of one parameter set *)

\* fetchWithCache(ep, p) up to its await.
RawFetch(p) ==
    /\ calls < MaxCalls
    /\ p \notin rawPending
    /\ calls' = calls + 1
    /\ rawPending' = IF CacheHit(cache, now, getCacheKey(ep, p))
                     THEN rawPending ELSE rawPending \cup {p}
    /\ requests' = IF CacheHit(cache, now, getCacheKey(ep, p)) THEN requests
                    ELSE requests + 1
    /\ lastRead' = [ReadRecord(cache, now, getCacheKey(ep, p))
                      EXCEPT !.issued = requests' # requests]
    /\ UNCHANGED <<svcVars, pending, lastRet, fetched, ep, p1, p2, pageVars,
                   sideVars>>

\* fetchWithCache(ep, p) from its response on.
RawRespond(p, outcome) ==
    /\ p \in rawPending
    /\ rawPending' = rawPending \ {p}
    /\ cache' = FetchSettle(cache, now, ep, p, outcome).cache
    /\ fetched' = Fetched(fetched, getCacheKey(ep, p), outcome)
    /\ UNCHANGED <<now, ticks, calls, pending, lastRead, lastRet, requests, ep,
                   p1, p2, pageVars, sideVars>>

KeyTick ==
    /\ \E d \in ServiceSteps : Tick(d)
    /\ UNCHANGED <<cache, clientVars, keyVars, pageVars, sideVars>>

KeyInit ==
    /\ now = 0
    /\ ticks = 0
    /\ cache = <<>>
    /\ calls = 0
    /\ pending = {}
    /\ lastRead = NoRead
    /\ lastRet = NoRet
    /\ requests = 0
    /\ fetched = {}
    /\ ep \in Endpoints
    /\ \E c \in ServiceCoords, t \in Types : p1 = Params(c, t)
    /\ p2 \in Orderings(p1)
    /\ rawPending = {}
    /\ PageParked
    /\ SideParked

KeyNext ==
    \/ \E p \in {p1, p2} : RawFetch(p)
    \/ \E p \in rawPending, o \in Outcomes : RawRespond(p, o)
    \/ KeyTick

SpecKey == KeyInit /\ [][KeyNext]_vars

----------------------------------------------------------------------------
(* Spec: the page and the service under it *)

\* The values the other specifications' variables keep under Spec.
ClientParked ==
    /\ calls = 0
    /\ pending = {}
    /\ lastRead = NoRead
    /\ lastRet = NoRet
    /\ requests = 0
    /\ fetched = {}
    /\ ep = "weather"
    /\ p1 = <<>>
    /\ p2 = <<>>
    /\ rawPending = {}

\* The component after its first render: the useState initial values.
FirstRender ==
    [cache |-> <<>>,
     ops |-> [o \in OpIds |->
                IF o = LOAD THEN [NoOp EXCEPT !.pc = "init", !.solo = TRUE]
                ELSE NoOp],
     weather |-> NoView, hourlyForecast |-> NoView,
     dailyForecast |-> NoView, alerts |-> NoView, loading |-> TRUE,
     searchQuery |-> "", userLocation |-> NoLocation,
     searchError |-> NoError,
     last |-> [weather |-> -1, forecast |-> -1, location |-> -1]]

\* The state once the mount effect has called fetchWeatherData().
Init ==
    /\ now = 0
    /\ ticks = 0
    /\ ClientParked
    /\ SideParked
    /\ geoAvailable \in BOOLEAN
    /\ clearedAfter = -1
    /\ faults = 0
    /\ LET w == LoadStart(FirstRender, 0, geoAvailable) IN
        /\ cache = w.cache
        /\ ops = w.ops
        /\ weather = w.weather
        /\ hourlyForecast = w.hourlyForecast
        /\ dailyForecast = w.dailyForecast
        /\ alerts = w.alerts
        /\ loading = w.loading
        /\ searchQuery = w.searchQuery
        /\ userLocation = w.userLocation
        /\ searchError = w.searchError
        /\ last = w.last

pageFrame == <<now, ticks, calls, pending, lastRead, lastRet, requests,
               fetched, ep, p1, p2, rawPending, geoAvailable, clearedAfter,
               route, norm, deb>>

\* The device lookup started by the load answers.
GeoResolve(outcome) ==
    /\ ops[LOAD].pc = "locating"
    /\ Apply(IF outcome = "ok"
             THEN LoadLocated(World, now, "ok", DevicePosition,
                              "Current Location")
             ELSE LoadLocated(World, now, "error", LocateFallback,
                              "San Francisco, CA"))
    /\ UNCHANGED <<pageFrame, faults>>

\* The response to fetcher f of operation o arrives; o resumes if the await
\* it is stopped at is now satisfied.
Settle(o, f, outcome) ==
    LET op == ops[o]
        s == FetchSettle(cache, now, "weather", FetcherParams(f, op.coord),
                         outcome)
        w == [World EXCEPT !.cache = s.cache,
                           !.ops[o].res[f] =
                               FetcherReturn(f, op.coord, s.ok, s.data)]
    IN
    /\ op.res[f].status = "pending"
    /\ faults' = IF outcome = "ok" THEN faults ELSE faults + 1
    /\ Apply(IF o = LOAD THEN LoadAwaitAll(w)
             ELSE IF op.pc = "weather" THEN SearchGotWeather(w, now, o)
             ELSE SearchAwaitAll(w, now, o))
    /\ UNCHANGED pageFrame

\* A response under Spec: at most MaxFaults of them fail or are malformed.
PageRespond(o, f, outcome) ==
    /\ outcome # "ok" => faults < MaxFaults
    /\ Settle(o, f, outcome)

\* onChange of the search box.
TypeQuery(q) ==
    /\ \E s \in Searches : ops[s].pc = "idle"
    /\ q # searchQuery
    /\ searchQuery' = q
    /\ UNCHANGED <<svcVars, clientVars, keyVars, sideVars, weather,
                   hourlyForecast,
                   dailyForecast, alerts, loading, userLocation, searchError,
                   geoAvailable, ops, last, clearedAfter, faults>>

\* onSubmit of the search form.
Submit(s) ==
    /\ ops[s].pc = "idle"
    /\ \A r \in Searches : r < s => ops[r].pc # "idle"
    /\ Cardinality({o \in OpIds : Active(ops[o])}) < MaxActive
    /\ IF IsBlank(searchQuery)
       THEN UNCHANGED <<cache, pageVars>>
       ELSE /\ Apply([SearchStart(World, s) EXCEPT
                          !.ops = MarkOverlap(@, s)])
            /\ UNCHANGED <<geoAvailable, clearedAfter, faults>>
    /\ UNCHANGED <<now, ticks, clientVars, keyVars, sideVars>>

\* The geocoding request of search s answers.
GeocodeRespond(s, outcome) ==
    /\ ops[s].pc = "geocoding"
    /\ Apply(SearchGeocoded(World, now, s, outcome))
    /\ UNCHANGED <<pageFrame, faults>>

\* The setTimeout callback of a failed search runs.
TimerFire(s) ==
    /\ ops[s].timer >= 0
    /\ now >= ops[s].timer
    /\ searchError' = NoError
    /\ ops' = [ops EXCEPT ![s].timer = -1]
    /\ clearedAfter' = IF searchError.shown THEN now - searchError.setAt
                       ELSE clearedAfter
    /\ UNCHANGED <<svcVars, clientVars, keyVars, sideVars, weather,
                   hourlyForecast,
                   dailyForecast, alerts, loading, searchQuery, userLocation,
                   geoAvailable, last, faults>>

\* The clock is advanced only while something of the page can tell: a timer
\* is pending.
PageTick ==
    /\ \E s \in Searches : ops[s].timer >= 0
    /\ \A o \in OpIds : ~Active(ops[o])
    /\ \E d \in PageSteps : Tick(d)
    /\ UNCHANGED <<cache, clientVars, keyVars, sideVars, pageVars>>

Next ==
    \/ \E o \in {"ok", "error"} : GeoResolve(o)
    \/ \E o \in OpIds, f \in Fetchers, out \in Outcomes : PageRespond(o, f, out)
    \/ \E q \in Queries : TypeQuery(q)
    \/ \E s \in Searches : Submit(s)
    \/ \E s \in Searches, out \in GeoOutcomes : GeocodeRespond(s, out)
    \/ \E s \in Searches : TimerFire(s)
    \/ PageTick

Spec == Init /\ [][Next]_vars

----------------------------------------------------------------------------
(* SpecLoad: the mount effect's fetchWeatherData() alone, every response free *)

\* A response to one of the load's four requests, with any outcome.
LoadRespond(f, outcome) == Settle(LOAD, f, outcome)

LoadNext ==
    \/ \E o \in {"ok", "error"} : GeoResolve(o)
    \/ \E f \in Fetchers, out \in Outcomes : LoadRespond(f, out)

SpecLoad == Init /\ [][LoadNext]_vars

----------------------------------------------------------------------------
(* SpecRoute: the proxy's GET handler (src/src/app/api/weather/route.ts) *)

\* What searchParams.get gives for lat and lon: null, "" or a number's text.
RouteNumbers == {None, "", "48.8566"}

\* What searchParams.get('type') gives.
RouteTypes == {None, "", "current", "forecast", "onecall", "hourly"}

\* process.env.OPENWEATHER_API_KEY: unset or set.
RouteKeys == {None, "key"}

\* The provider's status text, or the content of the error fetch throws.
ProviderTexts == {"Unauthorized", "Too Many Requests"}

\* How the request to the provider ends: a JSON body, a non-OK status, a
\* network failure, or a body that response.json() cannot parse.
UpstreamKinds == {"ok", "not_ok", "network_error", "bad_json"}

Upstreams == [kind : UpstreamKinds, text : ProviderTexts]

\* JavaScript's !v for a string or null.
Falsy(v) == v \in {None, ""}

TypeParamStrict(req) == req.type

\* searchParams.get('type') || 'current'
TypeParam(req) == IF Falsy(req.type) THEN "current" ELSE req.type

NoUpstream == [kind |-> None, text |-> None]

NoUrl == [path |-> None, lat |-> None, lon |-> None, appid |-> None,
          units |-> None]

NoData == [from |-> NoUrl, json |-> None]

\* No response yet.
NoResponse == [status |-> 0, error |-> <<>>, data |-> NoData, cors |-> FALSE]

\* NextResponse.json({ error }, { status })
ErrorResponse(message, status) ==
    [status |-> status, error |-> message, data |-> NoData, cors |-> FALSE]

\* NextResponse.json(data) with the CORS headers set.
DataResponse(data) ==
    [status |-> 200, error |-> <<>>, data |-> data, cors |-> TRUE]

\* The provider path each case of the switch requests.
ProviderPath(type) ==
    CASE type = "current"  -> "/weather"
      [] type = "forecast" -> "/forecast"
      [] type = "onecall"  -> "/onecall"

\* The URL of the upstream request.
ProviderUrl(req, key) ==
    [path |-> ProviderPath(TypeParam(req)), lat |-> req.lat, lon |-> req.lon,
     appid |-> key, units |-> "metric"]

\* The Error a failed upstream request throws inside the try block.
UpstreamError(u) ==
    CASE u.kind = "not_ok" -> <<"OpenWeatherMap API error: ", u.text>>
      [] u.kind = "network_error" -> <<u.text>>
      [] u.kind = "bad_json" -> <<"Unexpected token in JSON: ", u.text>>

GETCatchLeaking(error) == ErrorResponse(error, 500)

\* The catch block of GET: the error is logged, not answered.
GETCatch(error) == ErrorResponse(<<"Failed to fetch weather data">>, 500)

GETChecksKeyFirst(req, key) ==
    IF Falsy(key)
    THEN ErrorResponse(<<"OpenWeatherMap API key is not configured">>, 500)
    ELSE IF Falsy(req.lat) \/ Falsy(req.lon)
    THEN ErrorResponse(<<"Latitude and longitude are required">>, 400)
    ELSE IF TypeParam(req) \notin {"current", "forecast", "onecall"}
    THEN ErrorResponse(<<"Invalid type parameter">>, 400)
    ELSE NoResponse

\* GET up to its await: the response of a check that fails, or none yet when
\* the upstream request is made.
GETChecks(req, key) ==
    IF Falsy(req.lat) \/ Falsy(req.lon)
    THEN ErrorResponse(<<"Latitude and longitude are required">>, 400)
    ELSE IF Falsy(key)
    THEN ErrorResponse(<<"OpenWeatherMap API key is not configured">>, 500)
    ELSE IF TypeParam(req) \notin {"current", "forecast", "onecall"}
    THEN ErrorResponse(<<"Invalid type parameter">>, 400)
    ELSE NoResponse

\* GET after its await: the provider's body passed on, or the catch block.
GETAfterFetch(url, u) ==
    IF u.kind = "ok"
    THEN DataResponse([from |-> url, json |-> u.text])
    ELSE GETCatch(UpstreamError(u))

\* A request arrives and the handler runs to its first await or its return.
GET ==
    /\ route.pc = "received"
    /\ route' = IF GETChecks(route.req, route.key) = NoResponse
                THEN [route EXCEPT !.pc = "fetching",
                                   !.url = ProviderUrl(route.req, route.key)]
                ELSE [route EXCEPT !.pc = "done",
                                   !.res = GETChecks(route.req, route.key)]
    /\ UNCHANGED <<svcVars, clientVars, keyVars, pageVars, norm, deb>>

\* The provider answers (or the request to it fails).
GETResume(u) ==
    /\ route.pc = "fetching"
    /\ route' = [route EXCEPT !.pc = "done", !.up = u,
                              !.res = GETAfterFetch(route.url, u)]
    /\ UNCHANGED <<svcVars, clientVars, keyVars, pageVars, norm, deb>>

RouteInit ==
    /\ now = 0
    /\ ticks = 0
    /\ cache = <<>>
    /\ ClientParked
    /\ PageParked
    /\ norm = NoNorm
    /\ deb = NoDeb
    /\ \E lat \in RouteNumbers, lon \in RouteNumbers, type \in RouteTypes,
          key \in RouteKeys :
          route = [pc |-> "received",
                   req |-> [lat |-> lat, lon |-> lon, type |-> type],
                   key |-> key, url |-> NoUrl, up |-> NoUpstream,
                   res |-> NoResponse]

RouteNext ==
    \/ GET
    \/ \E u \in Upstreams : GETResume(u)

SpecRoute == RouteInit /\ [][RouteNext]_vars

----------------------------------------------------------------------------
(* Normalization: lists, day labels, wind speed and visibility *)

MaxList == 26

MaxDays == 9

MaxWind == 100

HOURLY_LIMIT == 24

DAILY_LIMIT == 7

HOUR == 60 * 60

DAY == 24 * 60 * 60

\* Wind speeds in tenths of a m/s: integers and one-decimal values.
WindTenths == 0..MaxWind

\* Visibilities in metres.
Visibilities == {0, 50, 8000, 8500, 9999, 10000}

\* Offsets of the local time zone from UTC, in seconds.
TimeZones == {-8 * HOUR, 9 * HOUR}

Min(a, b) == IF a < b THEN a ELSE b

SliceAll(list, n) == list

\* list.slice(0, n)
Slice(list, n) == SubSeq(list, 1, Min(n, Len(list)))

WindKmhTruncated(tenths) == (36 * tenths) \div 100

\* Math.round(speed * 3.6) for a speed of tenths/10 m/s: the product is
\* 36 * tenths / 100, and Math.round rounds halves up.
WindKmh(tenths) == (36 * tenths + 50) \div 100

\* visibility / 1000 as a decimal: whole kilometres and thousandths.
Kilometres(metres) ==
    [whole |-> metres \div 1000, frac |-> metres % 1000]

\* date.getDay() of new Date(dt * 1000) in the local time zone (0 is
\* Sunday; 1 January 1970 was a Thursday).
getDay(dt, tz) == ((dt + tz) \div DAY + 4) % 7

\* The hour toLocaleTimeString gives.
getHours(dt, tz) == ((dt + tz) \div HOUR) % 24

days == <<"Sun", "Mon", "Tue", "Wed", "Thu", "Fri", "Sat">>

DayLabelByWeekday(index, dt, tz) == days[getDay(dt, tz) + 1]

\* index === 0 ? 'Today' : days[date.getDay()]
DayLabel(index, dt, tz) ==
    IF index = 0 THEN "Today" ELSE days[getDay(dt, tz) + 1]

\* data.list of the forecast body: n three-hourly items from t0 on.
HourlyList(n, t0, wind) ==
    [i \in 1..n |-> [dt |-> t0 + (i - 1) * 3 * HOUR, wind |-> wind]]

\* data.daily of the onecall body: n daily items from t0 on.
DailyList(n, t0, wind) ==
    [i \in 1..n |-> [dt |-> t0 + (i - 1) * DAY, wind |-> wind]]

\* The wind and visibility fields of getCurrentWeather's view model.
NormalizeCurrent(data) ==
    [windSpeed |-> WindKmh(data.wind),
     visibility |-> Kilometres(data.visibility)]

HourlyEntry(item, tz) ==
    [dt |-> item.dt, time |-> getHours(item.dt, tz),
     windSpeed |-> WindKmh(item.wind)]

\* data.list.slice(0, 24).map(...)
NormalizeHourly(list, tz) ==
    [i \in 1..Len(Slice(list, HOURLY_LIMIT)) |->
        HourlyEntry(Slice(list, HOURLY_LIMIT)[i], tz)]

\* The map callback of getDailyForecast; index counts from 0.
DailyEntry(item, index, tz) ==
    [dt |-> item.dt, day |-> DayLabel(index, item.dt, tz),
     windSpeed |-> WindKmh(item.wind)]

\* data.daily.slice(0, 7).map(...)
NormalizeDaily(list, tz) ==
    [i \in 1..Len(Slice(list, DAILY_LIMIT)) |->
        DailyEntry(Slice(list, DAILY_LIMIT)[i], i - 1, tz)]

(* Numbers of the fallback data: IEEE 754 binary64 arithmetic *)

\* A non-negative Number below 128 is X * 2^-53 for a natural X, written as
\* four limbs of 16 bits, least significant first; the last limb carries
\* the rest, so the whole part of the Number is X[4] \div 32.
LimbBase == 2 ^ 16

WholeUnit == 2 ^ 5

\* X * m for a small natural m, exactly.
Times(X, m) ==
    LET t1 == X[1] * m
        t2 == X[2] * m + t1 \div LimbBase
        t3 == X[3] * m + t2 \div LimbBase
    IN  <<t1 % LimbBase, t2 % LimbBase, t3 % LimbBase,
          X[4] * m + t3 \div LimbBase>>

\* X + n for a natural n below 2^16, exactly.
Increment(X, n) ==
    LET t1 == X[1] + n
        t2 == X[2] + t1 \div LimbBase
        t3 == X[3] + t2 \div LimbBase
    IN  <<t1 % LimbBase, t2 % LimbBase, t3 % LimbBase,
          X[4] + t3 \div LimbBase>>

\* X + n * 2^53: a whole number added, exactly.
PlusWhole(X, n) == [X EXCEPT ![4] = @ + WholeUnit * n]

RECURSIVE Ulp(_)
\* The spacing of binary64 values around X in units of 2^-53, from the last
\* limb: 1 below one, 2 in [1, 2), 4 in [2, 4), and so on (53 significant
\* bits).
Ulp(top) == IF top < WholeUnit THEN 1 ELSE 2 * Ulp(top \div 2)

\* The result of an arithmetic operation: the exact value rounded to the
\* nearest binary64 value, ties to the even one.
RoundTiesToEven(X) ==
    LET q == Ulp(X[4])
        rem == X[1] % q
        down == [X EXCEPT ![1] = @ - rem]
        up == Increment(down, q)
    IN  IF 2 * rem < q THEN down
        ELSE IF 2 * rem > q THEN up
        ELSE IF (X[1] \div q) % 2 = 0 THEN down
        ELSE up

\* Math.random() * m
RandomTimes(r, m) == RoundTiesToEven(Times(r, m))

\* n + Math.random() * m
Scaled(n, r, m) == RoundTiesToEven(PlusWhole(RandomTimes(r, m), n))

\* Math.floor(Math.random() * m)
MathFloor(r, m) == RandomTimes(r, m)[4] \div WholeUnit

\* x < n and x >= n for a Number x and a whole number n.
Below(X, n) == X[4] < WholeUnit * n

AtLeast(X, n) == X[4] >= WholeUnit * n

\* Outcomes of Math.random(), a binary64 value in [0, 1): 0, 2^-53, a third,
\* a half, three quarters, 1 - 2^-52 and 1 - 2^-53, the largest Number
\* below 1.
RandomOutcomes ==
    << <<0, 0, 0, 0>>, <<1, 0, 0, 0>>, <<21845, 21845, 21845, 10>>,
       <<0, 0, 0, 16>>, <<0, 0, 0, 24>>, <<65534, 65535, 65535, 31>>,
       <<65535, 65535, 65535, 31>> >>

\* Where the random source stands when a fallback is generated.
Seeds == 0..(Len(RandomOutcomes) - 1)

\* The n-th Math.random() call (from 0) of a fallback generated from seed:
\* the source runs through the outcomes.
MathRandom(seed, n) ==
    RandomOutcomes[((seed + n) % Len(RandomOutcomes)) + 1]

Conditions == <<"Clear", "Clouds", "Rain">>

\* The mock entry i (from 0) of getHourlyForecast's catch; the object
\* literal calls Math.random() five times, in the order of its fields.
FallbackHourlyEntry(i, seed) ==
    [time |-> IF i = 0 THEN <<"Now">> ELSE <<i, ":00">>,
     temperature |-> Scaled(18, MathRandom(seed, 5 * i), 12),
     condition |-> Conditions[MathFloor(MathRandom(seed, 5 * i + 1), 3) + 1],
     humidity |-> MathFloor(MathRandom(seed, 5 * i + 2), 40) + 40,
     precipitation |-> MathFloor(MathRandom(seed, 5 * i + 3), 100),
     windSpeed |-> MathFloor(MathRandom(seed, 5 * i + 4), 20) + 5]

\* Array.from({ length: 24 }, ...) of getHourlyForecast's catch.
FallbackHourly(seed) ==
    [i \in 1..HOURLY_LIMIT |-> FallbackHourlyEntry(i - 1, seed)]

\* Array.from({ length: 7 }, ...) of getDailyForecast's catch: the days from
\* today on; six Math.random() calls an entry.
FallbackDaily(today, tz, seed) ==
    [i \in 1..DAILY_LIMIT |->
        [dt |-> today + (i - 1) * DAY,
         day |-> DayLabel(i - 1, today + (i - 1) * DAY, tz),
         highTemp |-> Scaled(22, MathRandom(seed, 6 * (i - 1)), 8),
         lowTemp |-> Scaled(12, MathRandom(seed, 6 * (i - 1) + 1), 8),
         condition |->
            Conditions[MathFloor(MathRandom(seed, 6 * (i - 1) + 2), 3) + 1],
         precipitation |-> MathFloor(MathRandom(seed, 6 * (i - 1) + 3), 100),
         humidity |-> MathFloor(MathRandom(seed, 6 * (i - 1) + 4), 30) + 50,
         windSpeed |-> MathFloor(MathRandom(seed, 6 * (i - 1) + 5), 15) + 5]]

(* Alerts: tier and category from the event text *)

MaxWords == 3

\* Words an event text is made of, as the provider writes them.
Words ==
    {"Severe", "EXTREME", "Warning", "WATCH", "Advisory", "Thunderstorm",
     "Storm", "Rain", "Flood", "Wind", "Snow", "Winter", "Temperature",
     "Heat", "cold", "Heavy", "Fog"}

\* word.toLowerCase()
ToLowerCase(word) ==
    CASE word = "Severe" -> "severe"
      [] word = "EXTREME" -> "extreme"
      [] word = "Warning" -> "warning"
      [] word = "WATCH" -> "watch"
      [] word = "Advisory" -> "advisory"
      [] word = "Thunderstorm" -> "thunderstorm"
      [] word = "Storm" -> "storm"
      [] word = "Rain" -> "rain"
      [] word = "Flood" -> "flood"
      [] word = "Wind" -> "wind"
      [] word = "Snow" -> "snow"
      [] word = "Winter" -> "winter"
      [] word = "Temperature" -> "temperature"
      [] word = "Heat" -> "heat"
      [] word = "cold" -> "cold"
      [] word = "Heavy" -> "heavy"
      [] word = "Fog" -> "fog"

\* The strings the rules look for.
Keywords ==
    {"severe", "extreme", "warning", "watch", "advisory", "storm", "thunder",
     "rain", "flood", "wind", "snow", "winter", "temperature", "heat", "cold"}

\* The keywords that are substrings of a lower-case word.
Substrings(lower) ==
    IF lower = "thunderstorm" THEN {"thunder", "storm"}
    ELSE {lower} \cap Keywords

\* Event texts: up to MaxWords words separated by spaces.
Texts == UNION {[1..n -> Words] : n \in 0..MaxWords}

\* alert.event.toLowerCase()
LowerText(text) == [i \in 1..Len(text) |-> ToLowerCase(text[i])]

\* event.includes(keyword)
Includes(event, keyword) ==
    \E i \in 1..Len(event) : keyword \in Substrings(event[i])

IncludesAny(event, keywords) == \E k \in keywords : Includes(event, k)

AlertTierNoElse(event) ==
    IF IncludesAny(event, {"severe", "extreme", "warning"})
    THEN [type |-> "severe", severity |-> 8]
    ELSE IF IncludesAny(event, {"watch", "advisory"})
    THEN [type |-> "moderate", severity |-> 6]
    ELSE [type |-> "moderate", severity |-> 5]

\* The first if / else if / else chain: type and severity.
AlertTier(event) ==
    IF IncludesAny(event, {"severe", "extreme", "warning"})
    THEN [type |-> "severe", severity |-> 8]
    ELSE IF IncludesAny(event, {"watch", "advisory"})
    THEN [type |-> "moderate", severity |-> 6]
    ELSE [type |-> "minor", severity |-> 3]

AlertCategorySnowFirst(event) ==
    IF IncludesAny(event, {"snow", "winter"}) THEN "snow"
    ELSE IF IncludesAny(event, {"storm", "thunder"}) THEN "storm"
    ELSE IF IncludesAny(event, {"rain", "flood"}) THEN "rain"
    ELSE IF Includes(event, "wind") THEN "wind"
    ELSE IF IncludesAny(event, {"temperature", "heat", "cold"})
    THEN "temperature"
    ELSE "other"

\* The second chain: the category, "other" when no rule matches.
AlertCategory(event) ==
    IF IncludesAny(event, {"storm", "thunder"}) THEN "storm"
    ELSE IF IncludesAny(event, {"rain", "flood"}) THEN "rain"
    ELSE IF Includes(event, "wind") THEN "wind"
    ELSE IF IncludesAny(event, {"snow", "winter"}) THEN "snow"
    ELSE IF IncludesAny(event, {"temperature", "heat", "cold"})
    THEN "temperature"
    ELSE "other"

\* The map callback of getWeatherAlerts; index counts from 0.
AlertEntry(alert, index) ==
    [id |-> index, title |-> alert.event,
     type |-> AlertTier(LowerText(alert.event)).type,
     severity |-> AlertTier(LowerText(alert.event)).severity,
     category |-> AlertCategory(LowerText(alert.event))]

\* data.alerts.map(...)
NormalizeAlerts(list) ==
    [i \in 1..Len(list) |-> AlertEntry(list[i], i - 1)]

(* SpecNormalize: one call of a fetcher, from the body it got to its view *)

\* Times of day 20:00 UTC on seven consecutive days, so that every weekday
\* occurs and the local date differs between the time zones.
StartTimes == {d * DAY + 20 * HOUR : d \in 0..6}

\* The bodies fetchWithCache hands each fetcher.
CurrentBodies == [wind : WindTenths, visibility : Visibilities]

HourlyBodies ==
    {HourlyList(n, 20 * HOUR, wind) : n \in 0..MaxList, wind \in WindTenths}

DailyBodies ==
    {DailyList(n, t0, wind) :
        n \in 0..MaxDays, t0 \in StartTimes, wind \in WindTenths}

\* data.alerts: missing, empty, or one alert.
AlertBodies ==
    {[present |-> FALSE, list |-> <<>>], [present |-> TRUE, list |-> <<>>]}
    \cup {[present |-> TRUE, list |-> <<[event |-> text]>>] : text \in Texts}

NoBody == <<>>

\* A fetcher called: f, whether fetchWithCache gave a body, the body, the
\* local time zone, Date.now() in seconds and where the random source
\* stands.
NormCall(f, ok, body, tz, at, seed) ==
    [pc |-> "called", f |-> f, ok |-> ok, body |-> body, tz |-> tz,
     at |-> at, seed |-> seed, out |-> <<>>]

\* The mock data of getCurrentWeather's catch.
FallbackCurrent ==
    [windSpeed |-> 10, visibility |-> [whole |-> 10, frac |-> 0]]

getCurrentWeather ==
    /\ norm.pc = "called"
    /\ norm.f = "current"
    /\ norm' = [norm EXCEPT !.pc = "returned",
                            !.out = IF norm.ok THEN NormalizeCurrent(norm.body)
                                    ELSE FallbackCurrent]
    /\ UNCHANGED <<svcVars, clientVars, keyVars, pageVars, route, deb>>

getHourlyForecast ==
    /\ norm.pc = "called"
    /\ norm.f = "hourly"
    /\ norm' = [norm EXCEPT !.pc = "returned",
                            !.out = IF norm.ok
                                    THEN NormalizeHourly(norm.body, norm.tz)
                                    ELSE FallbackHourly(norm.seed)]
    /\ UNCHANGED <<svcVars, clientVars, keyVars, pageVars, route, deb>>

getDailyForecast ==
    /\ norm.pc = "called"
    /\ norm.f = "daily"
    /\ norm' = [norm EXCEPT !.pc = "returned",
                            !.out = IF norm.ok
                                    THEN NormalizeDaily(norm.body, norm.tz)
                                    ELSE FallbackDaily(norm.at, norm.tz,
                                                       norm.seed)]
    /\ UNCHANGED <<svcVars, clientVars, keyVars, pageVars, route, deb>>

getWeatherAlerts ==
    /\ norm.pc = "called"
    /\ norm.f = "alerts"
    /\ norm' = [norm EXCEPT !.pc = "returned",
                            !.out = IF norm.ok /\ norm.body.present
                                    THEN NormalizeAlerts(norm.body.list)
                                    ELSE <<>>]
    /\ UNCHANGED <<svcVars, clientVars, keyVars, pageVars, route, deb>>

NormalizeInit ==
    /\ now = 0
    /\ ticks = 0
    /\ cache = <<>>
    /\ ClientParked
    /\ PageParked
    /\ route = NoRoute
    /\ deb = NoDeb
    /\ \/ \E b \in CurrentBodies :
             norm = NormCall("current", TRUE, b, 0, 0, 0)
       \/ norm = NormCall("current", FALSE, NoBody, 0, 0, 0)
       \/ \E b \in HourlyBodies, tz \in TimeZones :
             norm = NormCall("hourly", TRUE, b, tz, 0, 0)
       \/ \E seed \in Seeds :
             norm = NormCall("hourly", FALSE, NoBody, 0, 0, seed)
       \/ \E b \in DailyBodies, tz \in TimeZones :
             norm = NormCall("daily", TRUE, b, tz, 0, 0)
       \/ \E at \in StartTimes, tz \in TimeZones, seed \in Seeds :
             norm = NormCall("daily", FALSE, NoBody, tz, at, seed)
       \/ \E b \in AlertBodies : norm = NormCall("alerts", TRUE, b, 0, 0, 0)
       \/ norm = NormCall("alerts", FALSE, NoBody, 0, 0, 0)

NormalizeNext ==
    \/ getCurrentWeather
    \/ getHourlyForecast
    \/ getDailyForecast
    \/ getWeatherAlerts

SpecNormalize == NormalizeInit /\ [][NormalizeNext]_vars

----------------------------------------------------------------------------
(* SpecDebounce: the function PerformanceMonitor.debounce returns *)

MaxDebounceCalls == 3

MaxDebounceTicks == 3

\* The wait the resize handler is debounced with.
DEBOUNCE_WAIT == 250

\* Waits given to debounce, in ms.
Waits == {0, DEBOUNCE_WAIT}

\* What the returned function is called with.
DebounceArgs == {"first", "second"}

\* How far the clock advances between two events, in ms.
DebounceSteps == {1, DEBOUNCE_WAIT - 1, DEBOUNCE_WAIT}

\* The closure variable `timeout` before the first call: null.
NoTimer == 0

\* The delay setTimeout waits for: a negative timeout counts as 0.
TimerDelay(wait) == IF wait < 0 THEN 0 ELSE wait

\* clearTimeout(id): the timer with this id, if it is still pending, is
\* removed; an id that has fired or been cleared, or null, does nothing.
clearTimeout(timers, id) == {t \in timers : t.id # id}

\* setTimeout(() => func(...args), wait) at time t: a timer under a new id.
setTimeout(timers, id, args, wait, t) ==
    timers \cup {[id |-> id, args |-> args, due |-> t + TimerDelay(wait)]}

NoCall == [args |-> None, at |-> 0]

NoRun == [args |-> None, at |-> 0, latest |-> NoCall]

\* debounce(func, wait) has returned: `timeout` is null, no timer is set.
\* Kept besides: the number of calls, the latest call, the latest run of
\* func with the call that was the latest then, and the runs since the
\* latest call.
Debounced(wait) ==
    [pc |-> "ready", wait |-> wait, timeout |-> NoTimer, nextId |-> 1,
     timers |-> {}, clock |-> 0, ticks |-> 0, calls |-> 0,
     lastCall |-> NoCall, lastRun |-> NoRun, runsSince |-> 0]

DebounceFrame == <<svcVars, clientVars, keyVars, pageVars, route, norm>>

DebounceCallNoClear(args) ==
    /\ deb.pc = "ready"
    /\ deb.calls < MaxDebounceCalls
    /\ deb' = [deb EXCEPT
                  !.timers = setTimeout(deb.timers, deb.nextId, args,
                                        deb.wait, deb.clock),
                  !.timeout = deb.nextId,
                  !.nextId = deb.nextId + 1,
                  !.calls = deb.calls + 1,
                  !.lastCall = [args |-> args, at |-> deb.clock],
                  !.runsSince = 0]
    /\ UNCHANGED DebounceFrame

\* The returned function is called: the timer `timeout` names is cleared
\* and a new one is set.
DebounceCall(args) ==
    /\ deb.pc = "ready"
    /\ deb.calls < MaxDebounceCalls
    /\ deb' = [deb EXCEPT
                  !.timers = setTimeout(
                      IF deb.timeout # NoTimer
                      THEN clearTimeout(deb.timers, deb.timeout)
                      ELSE deb.timers,
                      deb.nextId, args, deb.wait, deb.clock),
                  !.timeout = deb.nextId,
                  !.nextId = deb.nextId + 1,
                  !.calls = deb.calls + 1,
                  !.lastCall = [args |-> args, at |-> deb.clock],
                  !.runsSince = 0]
    /\ UNCHANGED DebounceFrame

\* A timer that is due runs its callback, func(...args), at the due time or
\* later.
TimerRun(t) ==
    /\ deb.pc = "ready"
    /\ t \in deb.timers
    /\ t.due <= deb.clock
    /\ deb' = [deb EXCEPT
                  !.timers = deb.timers \ {t},
                  !.lastRun = [args |-> t.args, at |-> deb.clock,
                               latest |-> deb.lastCall],
                  !.runsSince = deb.runsSince + 1]
    /\ UNCHANGED DebounceFrame

\* Time passes between events.
DebounceTick(d) ==
    /\ deb.pc = "ready"
    /\ deb.ticks < MaxDebounceTicks
    /\ deb' = [deb EXCEPT !.clock = deb.clock + d, !.ticks = deb.ticks + 1]
    /\ UNCHANGED DebounceFrame

\* Time passes until a pending timer is due.
TimerElapse(t) ==
    /\ deb.pc = "ready"
    /\ t \in deb.timers
    /\ t.due > deb.clock
    /\ deb' = [deb EXCEPT !.clock = t.due]
    /\ UNCHANGED DebounceFrame

DebounceInit ==
    /\ now = 0
    /\ ticks = 0
    /\ cache = <<>>
    /\ ClientParked
    /\ PageParked
    /\ route = NoRoute
    /\ norm = NoNorm
    /\ \E wait \in Waits : deb = Debounced(wait)

DebounceNext ==
    \/ \E args \in DebounceArgs : DebounceCall(args)
    \/ \E t \in deb.timers : TimerRun(t)
    \/ \E d \in DebounceSteps : DebounceTick(d)
    \/ \E t \in deb.timers : TimerElapse(t)

SpecDebounce == DebounceInit /\ [][DebounceNext]_vars

\* The event loop runs a due timer's callback, and time does not stop while
\* a timer is pending.
SpecDebounceFair ==
    /\ SpecDebounce
    /\ WF_vars(\E t \in deb.timers : TimerRun(t))
    /\ WF_vars(\E t \in deb.timers : TimerElapse(t))

----------------------------------------------------------------------------
(* Claims about the cache *)

\* C1: a cache key does not depend on the order in which the parameter
\* object's keys were inserted: two objects holding the same pairs get the
\* same key, so a read with P2 that finds P1's entry valid is a hit.
C1_KeyOrderIndependent ==
    /\ SameMapping(p1, p2) => getCacheKey(ep, p1) = getCacheKey(ep, p2)
    /\ ( /\ lastRead.key = getCacheKey(ep, p2)
         /\ getCacheKey(ep, p1) \in lastRead.valid ) => lastRead.hit

\* C2: a read finding an entry written at T serves it from the cache, with no
\* upstream request, when now - T <= 600000 ms (the boundary included), and
\* treats it as absent, issuing an upstream request, when now - T > 600000.
C2_ExpiryBoundary ==
    lastRead.had =>
        /\ lastRead.age <= CACHE_DURATION => lastRead.hit /\ ~lastRead.issued
        /\ lastRead.age > CACHE_DURATION => ~lastRead.hit /\ lastRead.issued

C2_Witness ==
    /\ lastRead.had
    /\ lastRead.age = CACHE_DURATION
    /\ lastRead.hit

\* The entry of key k is past its duration.
Expired(k) == k \in DOMAIN cache /\ isDataExpired(cache[k].timestamp, now)

C3_NeverServed ==
    lastRet.ret # Unsettled =>
        /\ lastRet.ret.value.kind \in {"data", "fallback"}
        /\ lastRet.ret.value.kind = "data" =>
               lastRet.readAt - lastRet.ret.value.at <= CACHE_DURATION

C3_StaysStored ==
    \A k \in DOMAIN cache :
        (Expired(k) /\ cache' # <<>>) =>
            /\ k \in DOMAIN cache'
            /\ CacheEntries(cache') >= CacheEntries(cache)
            /\ \/ cache'[k] = cache[k]
               \/ /\ cache'[k].timestamp = now
                  /\ \E call \in pending \ pending' :
                        FetcherKey(call.f, call.coord) = k

C3_FailedRefetch ==
    \A call \in pending \ pending' :
        (Expired(FetcherKey(call.f, call.coord)) /\ cache' = cache) =>
            /\ lastRet'.f = call.f
            /\ lastRet'.ret.value = Fallback(call.f, call.coord)

\* C3: an expired entry is never returned to a caller; no step other than
\* clearCache removes it, it stays stored and counted until a delivered
\* response for its own key overwrites it, and when that refetch fails the
\* caller gets the fallback.
C3_ExpiredNeverReturned ==
    /\ []C3_NeverServed
    /\ [][C3_StaysStored /\ C3_FailedRefetch]_vars

C3_Witness ==
    /\ lastRet.ret.value.kind = "fallback"
    /\ Expired(FetcherKey(lastRet.f, lastRet.coord))
    /\ lastRet.readAt = now

----------------------------------------------------------------------------
(* Claims about the initial load *)

\* A view fetcher f may give for place c: built from a body received for its
\* own request, or its mock data.
C4_ValidView(f, c, v) ==
    \/ v = Fallback(f, c)
    \/ v.kind = "data" /\ v.f = f /\ v.coord = c

C4_Fallbacks ==
    {f \in Fetchers : /\ ops[LOAD].res[f].status = "resolved"
                      /\ ops[LOAD].res[f].value.kind = "fallback"}

\* C4: whatever the upstream answers (network failure, non-2xx status, a
\* body that fails normalization), each of the four fetchers' promises
\* resolves, never rejects, with a valid view model of its own kind, the
\* fallback exactly for the responses that failed; the catch block of
\* fetchWeatherData is never entered.
C4_FetchersNeverReject ==
    /\ ops[LOAD].pc # "caught"
    /\ \A f \in Fetchers :
          LET r == ops[LOAD].res[f] IN
          /\ r.status \in {"idle", "pending", "resolved"}
          /\ r.status = "resolved" =>
                C4_ValidView(f, ops[LOAD].coord, r.value)
    /\ Cardinality(C4_Fallbacks) = faults

C4_Witness ==
    /\ ops[LOAD].pc = "done"
    /\ C4_Fallbacks = Fetchers
    /\ weather = Fallback("current", ops[LOAD].coord)
    /\ DOMAIN cache # {}
    /\ DOMAIN cache # {FetcherKey(f, ops[LOAD].coord) : f \in Fetchers}

\* C8: the load starts its four fetches before it awaits any of them, writes
\* the display state only once all four have settled, and for every subset of
\* failing responses the joint wait completes: all four display values are
\* written from the four results and loading becomes false.
C8_JointWait ==
    LET op == ops[LOAD]
        shown == <<weather, hourlyForecast, dailyForecast, alerts>>
    IN
    /\ op.pc = "locating" => \A f \in Fetchers : op.res[f].status = "idle"
    /\ op.pc \in {"fetching", "done"} =>
          \A f \in Fetchers : op.res[f].status # "idle"
    /\ op.pc # "done" => shown = <<NoView, NoView, NoView, NoView>> /\ loading
    /\ (\A f \in Fetchers : op.res[f].status = "resolved") => op.pc = "done"
    /\ op.pc = "done" =>
          /\ \A f \in Fetchers : op.res[f].status = "resolved"
          /\ shown = <<op.res["current"].value, op.res["hourly"].value,
                       op.res["daily"].value, op.res["alerts"].value>>
          /\ \A i \in 1..4 : shown[i].kind \in {"data", "fallback"}
          /\ ~loading

C8_Witness ==
    /\ ops[LOAD].pc = "done"
    /\ C4_Fallbacks = {"hourly", "alerts"}
    /\ weather.kind = "data"
    /\ hourlyForecast.kind = "fallback"
    /\ dailyForecast.kind = "data"
    /\ alerts.kind = "fallback"
    /\ ~loading

\* C10: the load asks the device for its position exactly once; when that
\* fails or geolocation is unavailable the four fetches are issued for the
\* default coordinates (37.7749, -122.4194), and when it succeeds for the
\* device's coordinates.
C10_LocateThenFetch ==
    LET op == ops[LOAD] IN
    /\ op.geoCalls = 1
    /\ op.pc = "locating" => geoAvailable /\ cache = <<>>
    /\ op.pc \in {"fetching", "done"} =>
          /\ op.geo \in {"ok", "error", "unavailable"}
          /\ op.geo = "unavailable" <=> ~geoAvailable
          /\ op.coord = IF op.geo = "ok" THEN DevicePosition
                        ELSE [lat |-> DEFAULT_LAT, lon |-> DEFAULT_LON]
          /\ DOMAIN cache \subseteq {FetcherKey(f, op.coord) : f \in Fetchers}
          /\ \A f \in Fetchers : op.res[f].status # "idle"
          /\ \A f \in Fetchers :
                op.res[f].value.kind = "data" =>
                    op.res[f].value.coord = op.coord

C10_Witness ==
    /\ ops[LOAD].pc = "done"
    /\ ops[LOAD].geo = "error"
    /\ weather.kind = "data"
    /\ weather.coord = [lat |-> DEFAULT_LAT, lon |-> DEFAULT_LON]
    /\ FetcherKey("current", DefaultCoords) \in DOMAIN cache

----------------------------------------------------------------------------
(* Claims about the search *)

\* Search s takes a step of handleSearch: it starts, or one of its awaits
\* resumes.
C5_Starts(s) == ops[s].pc = "idle" /\ ops'[s].pc # "idle"

C5_FailsNotFound(s) ==
    /\ ops[s].pc = "geocoding"
    /\ ops'[s].pc = "failed"
    /\ ops'[s].geo = "empty"

\* C5: a search whose geocoding returns zero results fails with the
\* not-found error, and neither its start nor its failure touches the
\* displayed weather, hourly forecast, daily forecast, alerts or user
\* location (nor the query or the cache): only the error message and the
\* loading flag change.
C5_ZeroResultsKeepDisplay ==
    [][\A s \in Searches :
        /\ (C5_Starts(s) \/ C5_FailsNotFound(s)) =>
              UNCHANGED <<weather, hourlyForecast, dailyForecast, alerts,
                          userLocation, searchQuery, cache>>
        /\ C5_FailsNotFound(s) =>
              /\ searchError'.shown
              /\ searchError'.cause = "not_found"
              /\ searchError'.query = ops[s].query
              /\ ~loading'
              /\ \A f \in Fetchers : ops'[s].res[f].status = "idle"]_vars

C5_Witness ==
    \E s \in Searches :
        /\ ops[s].pc = "failed"
        /\ ops[s].geo = "empty"
        /\ ops[s].solo
        /\ searchError.shown
        /\ searchError.cause = "not_found"
        /\ weather.kind = "data"
        /\ hourlyForecast.kind = "data"
        /\ userLocation.city = weather.location
        /\ ~loading

\* C6: a timer never removes an error message that has been displayed for
\* less than the 3-second delay.
C6_ShownThreeSeconds ==
    clearedAfter = -1 \/ clearedAfter >= SEARCH_ERROR_MS

\* The value operation o writes to each part of the display.
C7_WrittenWeather(o) ==
    IF o = LOAD
    THEN (IF ops[LOAD].pc = "caught" THEN Fallback("current", NoCoords)
          ELSE ops[LOAD].res["current"].value)
    ELSE [ops[o].res["current"].value EXCEPT !.location = ops[o].label]

C7_WrittenLocation(o) ==
    [lat |-> ops[o].coord.lat, lon |-> ops[o].coord.lon,
     city |-> IF o # LOAD THEN ops[o].label
              ELSE IF ops[LOAD].pc = "done"
                   THEN ops[LOAD].res["current"].value.location
              ELSE IF ops[LOAD].geo = "ok" THEN "Current Location"
              ELSE "San Francisco, CA"]

C7_LastWriteWins ==
    /\ weather = IF last.weather = -1 THEN NoView
                 ELSE C7_WrittenWeather(last.weather)
    /\ userLocation = IF last.location = -1 THEN NoLocation
                      ELSE C7_WrittenLocation(last.location)
    /\ <<hourlyForecast, dailyForecast, alerts>> =
          IF last.forecast = -1 THEN <<NoView, NoView, NoView>>
          ELSE <<ops[last.forecast].res["hourly"].value,
                 ops[last.forecast].res["daily"].value,
                 ops[last.forecast].res["alerts"].value>>

\* A search in flight is waiting for a response that can still arrive.
C7_InFlight ==
    \A s \in Searches :
        /\ ops[s].pc = "weather" => ops[s].res["current"].status = "pending"
        /\ ops[s].pc = "forecast" =>
              \E f \in SearchForecasts : ops[s].res[f].status = "pending"
        /\ ops[s].pc \in {"idle", "geocoding", "weather", "forecast",
                           "done", "failed"}

\* Starting a search changes nothing of any other operation.
C7_NotCancelled ==
    \A s \in Searches, o \in OpIds :
        (o # s /\ C5_Starts(s)) =>
            [ops'[o] EXCEPT !.solo = FALSE] = [ops[o] EXCEPT !.solo = FALSE]

\* C7: when searches overlap none is cancelled, each goes on to its own end,
\* and every part of the shared display (weather, user location, hourly,
\* daily, alerts) holds what the operation that wrote it last wrote, in
\* whichever order the searches were started.
C7_OverlapLastWriteWins ==
    /\ [](C7_LastWriteWins /\ C7_InFlight)
    /\ [][C7_NotCancelled]_vars

C7_Witness ==
    /\ MaxSearches >= 2
    /\ ops[1].pc = "done" /\ ops[2].pc = "done"
    /\ ~ops[1].solo /\ ~ops[2].solo
    /\ ops[1].coord # ops[2].coord
    /\ last = [weather |-> 2, forecast |-> 1, location |-> 2]
    /\ weather.coord = ops[2].coord
    /\ hourlyForecast.kind = "data"
    /\ hourlyForecast.coord = ops[1].coord

C9_Completes(s) == ops[s].pc # "done" /\ ops'[s].pc = "done" /\ ops'[s].solo

\* C9: when a search that ran with no other load or search in flight
\* completes, the user location holds the geocoded coordinates and the
\* "name, country" label, the current weather, hourly forecast, daily
\* forecast and alerts are the results fetched for those coordinates, and
\* the query is cleared.
C9_SoloSearchResult ==
    [][\A s \in Searches :
        C9_Completes(s) =>
            LET place == Gazetteer(ops[s].query)
                res == ops'[s].res
            IN
            /\ ops'[s].geo = "found"
            /\ userLocation' =
                  [lat |-> place.coord.lat, lon |-> place.coord.lon,
                   city |-> CityLabel(place.name, place.country)]
            /\ weather'.location = CityLabel(place.name, place.country)
            /\ weather' = [res["current"].value EXCEPT
                              !.location = weather'.location]
            /\ hourlyForecast' = res["hourly"].value
            /\ dailyForecast' = res["daily"].value
            /\ alerts' = res["alerts"].value
            /\ \A f \in Fetchers :
                  /\ res[f].status = "resolved"
                  /\ C4_ValidView(f, place.coord, res[f].value)
            /\ searchQuery' = ""
            /\ ~loading']_vars

C9_Witness ==
    \E s \in Searches :
        /\ ops[s].pc = "done"
        /\ ops[s].solo
        /\ ops[s].query = "Paris"
        /\ userLocation = [lat |-> CityCoords.lat, lon |-> CityCoords.lon,
                           city |-> "Paris, FR"]
        /\ weather.kind = "data"
        /\ weather.location = "Paris, FR"
        /\ weather.coord # ops[LOAD].coord
        /\ hourlyForecast.coord = CityCoords
        /\ dailyForecast.coord = CityCoords
        /\ alerts.coord = CityCoords
        /\ searchQuery = ""

----------------------------------------------------------------------------
(* Claims about the label of the located place *)

\* C11: once the load has completed, the user location's label is the one
\* set at geolocation time: "Current Location" if the device lookup
\* succeeded, "San Francisco, CA" if it failed or was unavailable.
C11_LabelKept ==
    ops[LOAD].pc = "done" =>
        userLocation.city = IF ops[LOAD].geo = "ok" THEN "Current Location"
                            ELSE "San Francisco, CA"

----------------------------------------------------------------------------
(* Claims about the city lookup *)

\* While the geocoding request is out nothing else of the search has
\* happened, and a weather request or result exists only for a search whose
\* geocoding found a place.
C12_GeocodeFirst ==
    \A s \in Searches :
        /\ ops[s].pc = "geocoding" =>
              /\ ops[s].geo = None
              /\ \A f \in Fetchers : ops[s].res[f].status = "idle"
        /\ (\E f \in Fetchers : ops[s].res[f].status # "idle") =>
              ops[s].geo = "found"
        /\ ops[s].pc \in {"weather", "forecast", "done"} =>
              ops[s].geo = "found"

\* The geocoding of search s ends without a place.
C12_GeocodeFails(s) ==
    /\ ops[s].pc = "geocoding"
    /\ ops'[s].geo \in GeoOutcomes \ {"found"}

C12_NothingFetched ==
    \A s \in Searches :
        C12_GeocodeFails(s) =>
            /\ ops'[s].pc = "failed"
            /\ searchError'.shown
            /\ \A f \in Fetchers : ops'[s].res[f].status = "idle"
            /\ cache' = cache

\* C12: city lookup is two steps in a fixed order: the geocoding request goes
\* first and the current-weather request is made only once geocoding has
\* returned a place; when geocoding fails or returns nothing the lookup
\* rejects, no weather request is made and the cache is unchanged.
C12_TwoStepLookup ==
    /\ []C12_GeocodeFirst
    /\ [][C12_NothingFetched]_vars

C12_Witness ==
    /\ MaxSearches >= 2
    /\ ops[1].pc = "weather"
    /\ ops[1].geo = "found"
    /\ ops[1].res["current"].status = "pending"
    /\ ops[2].pc = "failed"
    /\ ops[2].geo = "empty"
    /\ \A f \in Fetchers : ops[2].res[f].status = "idle"
    /\ FetcherKey("current", ops[1].coord) \notin DOMAIN cache

----------------------------------------------------------------------------
(* Claims about requests *)

C13_AtMostOne ==
    /\ requests <= calls
    /\ Cardinality(pending) <= requests

C13_StepIssues ==
    /\ requests' \in {requests, requests + 1}
    /\ requests' = requests + 1 =>
          /\ calls' = calls + 1
          /\ ~lastRead'.hit
          /\ Cardinality(pending') = Cardinality(pending) + 1
    /\ (calls' = calls + 1 /\ lastRead'.hit) =>
          requests' = requests /\ pending' = pending
    /\ calls' = calls => pending' \subseteq pending
    /\ \A call \in pending :
          call \notin pending' =>
              /\ requests' = requests
              /\ lastRet'.f = call.f
              /\ lastRet'.coord = call.coord
              /\ lastRet'.readAt = now
              /\ lastRet'.ret.status = "resolved"

\* C13: nothing is retried: one invocation issues at most one upstream
\* request, none on a cache hit, and when that request's response arrives,
\* failed or not, the invocation issues no further request and settles in
\* that same step.
C13_NoRetries ==
    /\ []C13_AtMostOne
    /\ [][C13_StepIssues]_vars

C13_Witness ==
    /\ calls = 2
    /\ requests = 2
    /\ pending = {}
    /\ cache = <<>>
    /\ lastRet.ret.value.kind = "fallback"
    /\ ~lastRead.hit

----------------------------------------------------------------------------
(* Claims about the proxy *)

C14_Path(type) ==
    CASE type \in {None, "", "current"} -> "/weather"
      [] type = "forecast" -> "/forecast"
      [] type = "onecall" -> "/onecall"
      [] OTHER -> None

\* C14: the proxy's GET answers either the provider's JSON as it came, with
\* status 200, or {error: string} with status 400 or 500 and nothing else:
\* 400 for a missing lat or lon, 400 for an unrecognised type, 500 for a
\* missing API key, 500 when the provider answers non-OK or cannot be
\* reached; a request without a type is answered as type "current".
C14_ProxyResponses ==
    LET q == route.req
        r == route.res
        located == q.lat \notin {None, ""} /\ q.lon \notin {None, ""}
    IN
    /\ route.pc = "fetching" =>
          /\ located /\ route.key # None /\ C14_Path(q.type) # None
          /\ route.url.path = C14_Path(q.type)
    /\ route.pc = "done" =>
          /\ r.status \in {200, 400, 500}
          /\ r.status = 200 =>
                /\ route.up.kind = "ok"
                /\ r.error = <<>>
                /\ r.data = [from |-> [path |-> C14_Path(q.type),
                                       lat |-> q.lat, lon |-> q.lon,
                                       appid |-> route.key,
                                       units |-> "metric"],
                             json |-> route.up.text]
          /\ r.status # 200 => r.error # <<>> /\ r.data = NoData
          /\ ~located => r.status = 400
          /\ (located /\ route.key = None) => r.status = 500
          /\ (located /\ route.key # None /\ C14_Path(q.type) = None) =>
                r.status = 400
          /\ route.up.kind \in {"not_ok", "network_error", "bad_json"} =>
                r.status = 500
          /\ (located /\ route.key # None /\ C14_Path(q.type) # None) =>
                route.up.kind # None

C14_Witness ==
    /\ route.pc = "done"
    /\ route.req.type = None
    /\ route.res.status = 200
    /\ route.res.data.from.path = "/weather"
    /\ route.res.data.json \in ProviderTexts

\* C15: upstream failures that differ only in the provider's status text or
\* error content get the same answer, status 500 with the body
\* {error: 'Failed to fetch weather data'}, in which the provider's text
\* does not appear.
C15_GenericUpstreamError ==
    LET generic == [status |-> 500,
                    error |-> <<"Failed to fetch weather data">>,
                    data |-> NoData, cors |-> FALSE]
        failures == {u \in Upstreams : u.kind # "ok"}
    IN
    /\ route.pc = "fetching" =>
          \A u1 \in failures, u2 \in failures :
              /\ GETAfterFetch(route.url, u1) = GETAfterFetch(route.url, u2)
              /\ GETAfterFetch(route.url, u1) = generic
    /\ (route.pc = "done" /\ route.up.kind \notin {None, "ok"}) =>
          /\ route.res = generic
          /\ \A i \in 1..Len(route.res.error) :
                route.res.error[i] \notin ProviderTexts

C15_Witness ==
    /\ route.pc = "done"
    /\ route.up = [kind |-> "not_ok", text |-> "Unauthorized"]
    /\ route.res.status = 500
    /\ route.res.error = <<"Failed to fetch weather data">>

----------------------------------------------------------------------------
(* Claims about normalization *)

\* The fetcher f has returned the view of a body it was given.
C16_Normalized(f) == norm.pc = "returned" /\ norm.f = f /\ norm.ok

\* out holds the first min(Len(list), limit) items of list, in order.
C16_FirstOf(out, list, limit) ==
    /\ Len(out) = IF Len(list) < limit THEN Len(list) ELSE limit
    /\ \A i \in 1..Len(out) : out[i].dt = list[i].dt

\* C16: for an upstream list of any length n the hourly forecast has exactly
\* min(n, 24) entries and the daily forecast exactly min(n, 7), and they are
\* the first entries of the upstream list in the upstream order.
C16_ListLimits ==
    /\ C16_Normalized("hourly") => C16_FirstOf(norm.out, norm.body, 24)
    /\ C16_Normalized("daily") => C16_FirstOf(norm.out, norm.body, 7)

C16_Witness ==
    /\ C16_Normalized("hourly")
    /\ Len(norm.body) = 25
    /\ Len(norm.out) = 24
    /\ norm.out[24].dt = norm.body[24].dt

\* C17: in every non-empty daily forecast, normalized or fallback, the
\* first entry's day label is "Today" whatever weekday its timestamp falls
\* on, and every later entry carries the weekday name of its own timestamp.
C17_DayLabels ==
    (norm.pc = "returned" /\ norm.f = "daily" /\ Len(norm.out) > 0) =>
        /\ norm.out[1].day = "Today"
        /\ \A i \in 2..Len(norm.out) :
              norm.out[i].day = days[getDay(norm.out[i].dt, norm.tz) + 1]
        /\ Len(norm.out) >= 2 =>
              norm.out[2].day =
                  days[((getDay(norm.out[1].dt, norm.tz) + 1) % 7) + 1]

C17_Witness ==
    /\ norm.pc = "returned"
    /\ norm.f = "daily"
    /\ ~norm.ok
    /\ Len(norm.out) = 7
    /\ norm.out[1].day = "Today"
    /\ getDay(norm.out[1].dt, norm.tz) = 0
    /\ norm.out[2].day = "Mon"
    /\ norm.out[7].day = "Sat"

\* The alert built of the one event text of the body.
C18_OneAlert ==
    /\ C16_Normalized("alerts")
    /\ norm.body.present
    /\ Len(norm.body.list) = 1

C18_Event == LowerText(norm.body.list[1].event)

\* C18: the tier of an alert is a three-way partition of the event texts,
\* matched without regard to case: severe with severity 8 if the text
\* contains "severe", "extreme" or "warning"; otherwise moderate with 6 if
\* it contains "watch" or "advisory"; otherwise minor with 3.  The initial
\* values (moderate, 5) are never the result.
C18_AlertTier ==
    C18_OneAlert =>
        LET a == norm.out[1]
            high == IncludesAny(C18_Event, {"severe", "extreme", "warning"})
            mid == IncludesAny(C18_Event, {"watch", "advisory"})
        IN
        /\ Len(norm.out) = 1
        /\ high => a.type = "severe" /\ a.severity = 8
        /\ (~high /\ mid) => a.type = "moderate" /\ a.severity = 6
        /\ (~high /\ ~mid) => a.type = "minor" /\ a.severity = 3
        /\ <<a.type, a.severity>> # <<"moderate", 5>>

C18_Witness ==
    /\ C18_OneAlert
    /\ norm.body.list[1].event = <<"Heavy", "Rain", "Advisory">>
    /\ norm.out[1].type = "moderate"
    /\ norm.out[1].severity = 6
    /\ norm.out[1].category = "rain"

\* The category of the first rule that matches, in the fixed order.
C19_FirstRule(event) ==
    CASE IncludesAny(event, {"storm", "thunder"}) -> "storm"
      [] ~IncludesAny(event, {"storm", "thunder"})
         /\ IncludesAny(event, {"rain", "flood"}) -> "rain"
      [] ~IncludesAny(event, {"storm", "thunder", "rain", "flood"})
         /\ Includes(event, "wind") -> "wind"
      [] ~IncludesAny(event, {"storm", "thunder", "rain", "flood", "wind"})
         /\ IncludesAny(event, {"snow", "winter"}) -> "snow"
      [] ~IncludesAny(event, {"storm", "thunder", "rain", "flood", "wind",
                              "snow", "winter"})
         /\ IncludesAny(event, {"temperature", "heat", "cold"})
            -> "temperature"
      [] OTHER -> "other"

\* The words that decide the tier only.
C19_TierWords == {"Severe", "EXTREME", "Warning", "WATCH", "Advisory"}

\* The text without its words of C19_TierWords.
C19_WithoutTier(text) == SelectSeq(text, LAMBDA w : w \notin C19_TierWords)

\* C19: the category of an alert is that of the first matching rule in the
\* order storm, rain, wind, snow, temperature, else other, so a text that
\* matches several rules gets the earliest one's category; the category
\* does not depend on the tier.
C19_AlertCategory ==
    C18_OneAlert =>
        /\ norm.out[1].category = C19_FirstRule(C18_Event)
        /\ norm.out[1].category =
              C19_FirstRule(LowerText(C19_WithoutTier(
                                          norm.body.list[1].event)))

C19_Witness ==
    /\ C18_OneAlert
    /\ norm.body.list[1].event = <<"Winter", "Storm", "Warning">>
    /\ norm.out[1].category = "storm"
    /\ norm.out[1].type = "severe"

\* r is v * 3.6 rounded to the nearest integer, for v = tenths / 10.
C20_Rounded(r, tenths) ==
    /\ 100 * r - 50 <= 36 * tenths
    /\ 36 * tenths < 100 * r + 50

\* C20: for every wind speed of 0 to MaxWind tenths of a m/s, the wind speed
\* of the current, hourly and daily view models is the speed times 3.6
\* rounded to the nearest integer (10 m/s gives 36 km/h), and the current
\* visibility is the metres divided by 1000 (8000 m gives 8 km).
C20_WindAndVisibility ==
    /\ C16_Normalized("current") =>
          /\ C20_Rounded(norm.out.windSpeed, norm.body.wind)
          /\ norm.out.visibility.whole * 1000 + norm.out.visibility.frac
                = norm.body.visibility
          /\ norm.out.visibility.frac \in 0..999
    /\ (C16_Normalized("hourly") \/ C16_Normalized("daily")) =>
          \A i \in 1..Len(norm.out) :
              C20_Rounded(norm.out[i].windSpeed, norm.body[i].wind)

C20_Witness ==
    /\ C16_Normalized("current")
    /\ norm.body = [wind |-> 100, visibility |-> 8000]
    /\ norm.out.windSpeed = 36
    /\ norm.out.visibility = [whole |-> 8, frac |-> 0]

(* Claims about the fallback generator *)

C21_Fallback(f) == norm.pc = "returned" /\ norm.f = f /\ ~norm.ok

C21_Entry(e) ==
    /\ e.condition \in {"Clear", "Clouds", "Rain"}
    /\ e.humidity >= 40 /\ e.humidity < 80
    /\ e.precipitation >= 0 /\ e.precipitation < 100

C21_Lengths ==
    /\ C21_Fallback("hourly") => Len(norm.out) = 24
    /\ C21_Fallback("daily") => Len(norm.out) = 7

\* The claim without the upper end of the hourly temperature range.
C21_AllButUpperEnd ==
    /\ C21_Lengths
    /\ (C21_Fallback("hourly") \/ C21_Fallback("daily")) =>
          \A i \in 1..Len(norm.out) : C21_Entry(norm.out[i])
    /\ C21_Fallback("hourly") =>
          \A i \in 1..Len(norm.out) : AtLeast(norm.out[i].temperature, 18)
    /\ requests = 0

\* C21: for every outcome of the random source the hourly fallback has 24
\* entries and the daily fallback 7, each entry's condition is one of Clear,
\* Clouds, Rain, its humidity lies in [40, 80) and its precipitation in
\* [0, 100), the hourly temperature lies in [18, 30), and no upstream request
\* is issued.
C21_FallbackRanges ==
    /\ C21_AllButUpperEnd
    /\ C21_Fallback("hourly") =>
          \A i \in 1..Len(norm.out) : Below(norm.out[i].temperature, 30)

(* Claims about clearCache and getCacheStatus *)

\* getCacheStatus().entries is the number of keys fetched since the last
\* clearCache, whatever their age.
C22_Count == CacheEntries(cache) = Cardinality(fetched)

\* A clearCache() that removes something leaves no entry when no fetch is in
\* flight.
C22_Cleared ==
    (fetched # {} /\ fetched' = {} /\ pending = {}) =>
        CacheEntries(cache') = 0

\* While nothing has been fetched since the clear, a fetch issues a request.
C22_NextFetchIssues ==
    (fetched = {} /\ calls' = calls + 1) =>
        /\ requests' = requests + 1
        /\ lastRead'.issued
        /\ ~lastRead'.hit

\* C22: after clearCache() with no fetch in flight getCacheStatus().entries
\* is 0 and the next fetch of every key issues an upstream request; at any
\* time entries equals the number of distinct keys successfully fetched
\* since the last clear, expired entries included.
C22_ClearAndCount ==
    /\ []C22_Count
    /\ [][C22_Cleared /\ C22_NextFetchIssues]_vars

\* getCurrentWeather fetched data, the cache was cleared, and the next
\* getCurrentWeather found no entry and issued a request.
C22_Witness ==
    /\ lastRet.f = "current"
    /\ lastRet.ret.value.kind = "data"
    /\ lastRead.key = FetcherKey("current", lastRet.coord)
    /\ ~lastRead.had
    /\ lastRead.issued
    /\ requests = 2
    /\ CacheEntries(cache) = 0

(* Claims about the order of normalization and caching *)

\* C23: on a cache miss the upstream is called, the response is normalized,
\* and only then the cache stores the result: the cache is never written
\* for a response before that response has been normalized, so every entry
\* is one a fetcher has built its view model from.
C23_NormalizedBeforeStored ==
    \A k \in DOMAIN cache :
        \A f \in Fetchers :
            TypeOf(f) = cache[k].data.type =>
                ~NormalizeThrows(f, cache[k].data)

(* Claims about the display once everything has settled *)

C24_AllSettled == \A o \in OpIds : ~Active(ops[o])

\* C24: once every outstanding load and search has settled, the displayed
\* current weather, the forecasts and alerts, and the user location all
\* belong to the location of one and the same load or search, for every
\* interleaving.
C24_OneLocation ==
    (C24_AllSettled /\ last.weather # -1 /\ last.forecast # -1) =>
        /\ ops[last.weather].coord = ops[last.forecast].coord
        /\ ops[last.location].coord = ops[last.forecast].coord
        /\ userLocation.lat = ops[last.forecast].coord.lat
        /\ userLocation.lon = ops[last.forecast].coord.lon

(* Claims about the loading flag *)

\* C25: the loading flag is true in every state in which a load or a search
\* is still outstanding, for every interleaving of overlapping operations.
C25_LoadingWhileOutstanding ==
    (\E o \in OpIds : Active(ops[o])) => loading

\* Once everything has settled the flag is false.
C25_FalseOnceSettled == C24_AllSettled => ~loading

(* Claims about concurrent fetches of one key *)

\* A call that finds no valid entry issues its own request, whether or not
\* a request for the same key is in flight; a call that finds one issues
\* none and is served the entry's payload.
C26_CallIssues ==
    calls' = calls + 1 =>
        /\ ~lastRead'.hit =>
              /\ requests' = requests + 1
              /\ Cardinality(pending') = Cardinality(pending) + 1
        /\ lastRead'.hit =>
              /\ requests' = requests
              /\ lastRet'.ret.value.kind = "data" =>
                    lastRet'.ret.value.at = cache[lastRead'.key].data.at

\* A response that gives a body replaces the entry of its key, also when an
\* earlier response for the same key has written one.
C26_Overwrites ==
    \A call \in pending :
        (call \notin pending' /\ lastRet'.ret.value.kind = "data") =>
            /\ cache'[FetcherKey(call.f, call.coord)].timestamp = now
            /\ cache'[FetcherKey(call.f, call.coord)].data.at = now
            /\ lastRet'.ret.value.at = now

\* getDailyForecast and getWeatherAlerts read and write the same key.
C26_SharedKey ==
    \A c \in ServiceCoords : FetcherKey("daily", c) = FetcherKey("alerts", c)

\* C26: in-flight requests are not deduplicated: two calls for the same key
\* that start before either response arrives each issue their own upstream
\* request and the later response overwrites the entry of the earlier one;
\* getDailyForecast and getWeatherAlerts share the onecall key, so started
\* together on a cold cache they issue two requests, and with a valid entry
\* both are served from the same payload with no request.
C26_NoInFlightDedup ==
    /\ []C26_SharedKey
    /\ [][C26_CallIssues /\ C26_Overwrites]_vars

\* Both onecall fetchers issued a request, the first response has written
\* the entry, and the second is still to arrive, at a later time.
C26_Witness ==
    /\ requests = 2
    /\ \E call \in pending :
          /\ call.f \in {"daily", "alerts"}
          /\ FetcherKey(call.f, call.coord) \in DOMAIN cache
          /\ cache[FetcherKey(call.f, call.coord)].timestamp < now
    /\ lastRet.f \in {"daily", "alerts"}
    /\ lastRet.ret.value.kind = "data"

(* Claims about failed requests and the cache *)

\* The call that returned last had its request fail.
C27_Failed == lastRet.how \in {"http_error", "network_error"}

\* A response that fails leaves the cache as it was and the fetcher returns
\* its mock data.
C27_FailureKeepsCache ==
    \A call \in pending :
        (call \notin pending' /\ lastRet'.how \in {"http_error",
                                                  "network_error"}) =>
            /\ cache' = cache
            /\ lastRet'.ret.value.kind = "fallback"

\* Every entry is a body some response delivered, never a fetcher's mock
\* data.
C27_NoFallbackCached ==
    \A k \in DOMAIN cache :
        /\ k \in fetched
        /\ \E f \in Fetchers, c \in ServiceCoords, o \in {"ok", "malformed"} :
              /\ k = FetcherKey(f, c)
              /\ cache[k].data =
                    Payload(FetcherParams(f, c), o, cache[k].timestamp)

\* This step is a call of the fetcher that returned last, with the same
\* coordinates.
C27_CalledAgain ==
    /\ calls' = calls + 1
    /\ IF lastRead'.hit
       THEN lastRet'.f = lastRet.f /\ lastRet'.coord = lastRet.coord
       ELSE [f |-> lastRet.f, coord |-> lastRet.coord] \in pending' \ pending

\* The next call issues a request, whatever the cache holds by then.
C27_AlwaysRefetched ==
    (C27_Failed /\ C27_CalledAgain) => requests' = requests + 1

\* The next call issues a request unless a response to another call for the
\* same key has stored a valid entry; then it is served that body.
C27_RefetchedOrServed ==
    (C27_Failed /\ C27_CalledAgain) =>
        IF CacheHit(cache, now, FetcherKey(lastRet.f, lastRet.coord))
        THEN /\ requests' = requests
             /\ lastRet'.how = "cache"
             /\ lastRet'.ret =
                   FetcherReturn(lastRet.f, lastRet.coord, TRUE,
                       cache[FetcherKey(lastRet.f, lastRet.coord)].data)
        ELSE requests' = requests + 1

\* C27 as stated: a failed upstream request leaves the cache unchanged,
\* fallback data is never written to the cache, and the next call of the
\* same fetcher with the same coordinates issues a new upstream request.
C27_FailureNotCached ==
    /\ []C27_NoFallbackCached
    /\ [][C27_FailureKeepsCache /\ C27_AlwaysRefetched]_vars

\* C27, amended: a failed upstream request leaves the cache unchanged and
\* fallback data is never written to the cache; the next call of the same
\* fetcher with the same coordinates never gets the fallback from the cache:
\* it issues a new upstream request, unless another call for the same key
\* has stored a valid entry meanwhile, which it is then served.
C27_FailureNotCachedAmended ==
    /\ []C27_NoFallbackCached
    /\ [][C27_FailureKeepsCache /\ C27_RefetchedOrServed]_vars

\* getDailyForecast's request failed while the response to getWeatherAlerts
\* stored a valid entry under the key they share, and a call can follow.
C27_Witness ==
    /\ lastRet.f = "daily"
    /\ C27_Failed
    /\ lastRet.ret.value.kind = "fallback"
    /\ CacheHit(cache, now, FetcherKey("daily", lastRet.coord))
    /\ pending = {}
    /\ calls < MaxRefetch

(* Claims about a search whose weather request fails *)

\* A search whose geocoding found the city never ends in its catch block.
C28_NoError ==
    \A s \in Searches :
        ops[s].geo = "found" =>
            /\ ops[s].pc # "failed"
            /\ ops[s].res["current"].status # "rejected"

\* getWeatherByCity resolves for search s in this step.
C28_Resolves(s) ==
    /\ ops[s].pc \in {"geocoding", "weather"}
    /\ ops'[s].pc \in {"forecast", "done"}

\* What getWeatherByCity resolves with is the current weather relabelled,
\* mock data included, and no message is set.
C28_Relabelled ==
    \A s \in Searches :
        C28_Resolves(s) =>
            LET place == Gazetteer(ops'[s].query)
                label == CityLabel(place.name, place.country)
                got == ops'[s].res["current"]
            IN
            /\ ops'[s].geo = "found"
            /\ got.status = "resolved"
            /\ weather' = [got.value EXCEPT !.location = label]
            /\ got.value.kind = "fallback" =>
                  /\ got.value = Fallback("current", place.coord)
                  /\ weather' = [Fallback("current", place.coord)
                                   EXCEPT !.location = label]
            /\ userLocation'.city = label
            /\ searchError' = searchError

\* The entries hold the bodies as received: read again, the current weather
\* of an entry carries the provider's label.
C28_CacheUntouched ==
    \A k \in DOMAIN cache :
        /\ \E o \in {"ok", "malformed"} :
              cache[k].data =
                  [coord |-> cache[k].data.coord, type |-> cache[k].data.type,
                   at |-> cache[k].timestamp,
                   shape |-> IF o = "ok" THEN "good" ELSE "malformed"]
        /\ (cache[k].data.type = "current" /\ cache[k].data.shape = "good") =>
              FetcherReturn("current", cache[k].data.coord, TRUE,
                            cache[k].data).value.location =
                  ProviderLabel(cache[k].data.coord)

\* C28: whenever geocoding returns a result getWeatherByCity resolves,
\* whatever the outcome of the current-weather request: on failure it
\* returns the fixed fallback with its location overwritten by the geocoded
\* "name, country", handleSearch reports no error, and the relabelling
\* changes the returned object only, not the cached payload.
C28_SearchSurvivesWeatherFailure ==
    /\ [](C28_NoError /\ C28_CacheUntouched)
    /\ [][C28_Relabelled]_vars

\* A search for Paris whose current-weather request failed shows the mock
\* data under the geocoded label, with no message.
C28_Witness ==
    \E s \in Searches :
        /\ ops[s].geo = "found"
        /\ ops[s].pc \in {"forecast", "done"}
        /\ ops[s].res["current"].value.kind = "fallback"
        /\ last.weather = s
        /\ weather.kind = "fallback"
        /\ weather.location = "Paris, FR"
        /\ ~searchError.shown
        /\ FetcherKey("current", CityCoords) \notin DOMAIN cache

(* Claims about the precedence of the proxy's checks *)

C29_MissingPlace ==
    route.req.lat \in {None, ""} \/ route.req.lon \in {None, ""}

C29_MissingKey == route.key \in {None, ""}

C29_InvalidType ==
    route.req.type \notin {None, "", "current", "forecast", "onecall"}

\* The handler returned without contacting the provider.
C29_NoUpstreamRequest == route.url = NoUrl /\ route.up = NoUpstream

\* C29: the proxy's checks have a fixed precedence and the provider is
\* contacted only when all pass: a missing lat or lon gives 400 even when
\* the API key is missing too, a missing key gives 500 even when the type is
\* invalid, an invalid type gives 400 only when lat, lon and the key are
\* present, and in these three cases no upstream request is issued.
C29_CheckPrecedence ==
    /\ route.pc = "fetching" =>
          ~C29_MissingPlace /\ ~C29_MissingKey /\ ~C29_InvalidType
    /\ route.pc = "done" =>
          /\ C29_MissingPlace =>
                /\ route.res.status = 400
                /\ route.res.error = <<"Latitude and longitude are required">>
                /\ C29_NoUpstreamRequest
          /\ (~C29_MissingPlace /\ C29_MissingKey) =>
                /\ route.res.status = 500
                /\ route.res.error =
                      <<"OpenWeatherMap API key is not configured">>
                /\ C29_NoUpstreamRequest
          /\ (~C29_MissingPlace /\ ~C29_MissingKey /\ C29_InvalidType) =>
                /\ route.res.status = 400
                /\ route.res.error = <<"Invalid type parameter">>
                /\ C29_NoUpstreamRequest
          /\ route.res.error = <<"Invalid type parameter">> =>
                ~C29_MissingPlace /\ ~C29_MissingKey
          /\ (~C29_MissingPlace /\ ~C29_MissingKey /\ ~C29_InvalidType) =>
                ~C29_NoUpstreamRequest

\* A request without lat, with no API key configured and with an invalid
\* type has been answered 400 for the coordinates.
C29_Witness ==
    /\ route.pc = "done"
    /\ route.req.lat = None
    /\ route.key = None
    /\ route.req.type = "hourly"
    /\ route.res.status = 400
    /\ route.res.error = <<"Latitude and longitude are required">>
    /\ C29_NoUpstreamRequest

(* Claims about debounce *)

\* func has run only for the call that was the latest at the time, with that
\* call's arguments and no sooner than wait ms after it; at most one timer
\* is pending, and it is the latest call's; func has run at most once since
\* the latest call, and once when no timer is left.
C30_Safety ==
    /\ Cardinality(deb.timers) <= 1
    /\ deb.runsSince <= 1
    /\ deb.lastRun # NoRun =>
          /\ deb.lastRun.args = deb.lastRun.latest.args
          /\ deb.lastRun.at - deb.lastRun.latest.at >= deb.wait
    /\ \A t \in deb.timers :
          /\ t.id = deb.timeout
          /\ t.args = deb.lastCall.args
          /\ t.due = deb.lastCall.at + deb.wait
          /\ deb.runsSince = 0
    /\ (deb.timers = {} /\ deb.calls > 0) =>
          /\ deb.runsSince = 1
          /\ deb.lastRun.latest = deb.lastCall

\* After a call, either another call follows or func runs.
C30_Live ==
    \A n \in 1..MaxDebounceCalls :
        (deb.calls = n) ~> (deb.calls > n \/ deb.runsSince = 1)

\* C30: for every sequence of calls of the function debounce returns, func
\* is invoked only when wait ms have passed since the most recent call with
\* no call in between, with that call's arguments; at most one timer is
\* pending at any time; and after the last call of a finite sequence func
\* is eventually invoked exactly once.
C30_Debounce ==
    /\ []C30_Safety
    /\ C30_Live

\* Two calls with different arguments less than wait ms apart, then func run
\* once, with the second call's arguments, wait ms after the second call.
C30_Witness ==
    /\ deb.pc = "ready"
    /\ deb.wait = DEBOUNCE_WAIT
    /\ deb.calls = 2
    /\ deb.lastCall = [args |-> "second", at |-> DEBOUNCE_WAIT - 1]
    /\ deb.lastRun = [args |-> "second", at |-> 2 * DEBOUNCE_WAIT - 1,
                      latest |-> deb.lastCall]
    /\ deb.runsSince = 1
    /\ deb.nextId = 3
    /\ deb.timers = {}

====
